---- MODULE Spec2Model ----
(***************************************************************************)
(* A model of the backend-connection core of xDB (src-tauri/src): the      *)
(* handle registries of AppState, the resolve functions of the four        *)
(* adapters (get_or_create_pool of mysql_manager and sqlite_manager,       *)
(* get_or_create_redis_client, get_or_create_client of memcached_manager), *)
(* the commands built on them, and the read/write classification of SQL    *)
(* text.  Callers are concurrent tasks; every await point of the code is   *)
(* a separate step.                                                        *)
(***************************************************************************)
EXTENDS Integers, Sequences, FiniteSets, TLC

\* ------------------------------------------------------------------ bounds
\* The commands invoked in one run, and the white space before a command text.
MaxCalls == 2
MaxPad == 1

\* The concurrent callers, the connection ids and the keyvalue namespaces.
Tasks == {1, 2}
ConnIds == {1}
DbIdx == {0, 1}
NoDb == 0 - 1

\* ---------------------------------------------------------------- profiles
\* models.rs Connection: db_type, host, database are what resolve reads.
\* host is TRUE when the column is non-NULL; database is the column's text
\* ("none" for NULL, "path" for a text that is not a number).
Kinds == {"mysql", "sqlite", "redis", "memcached"}
DbStrings == {"none", "path"} \cup {ToString(n) : n \in DbIdx \ {0}}

NoProfile == [kind |-> "none", host |-> FALSE, database |-> "none"]

\* The fields an adapter does not read, or replaces by a default that cannot
\* fail, are kept at one value.
Profiles ==
    {p \in [kind : Kinds, host : BOOLEAN, database : DbStrings] :
        /\ p.kind = "mysql" => (p.host /\ p.database = "none")
        /\ p.kind = "memcached" => (p.host /\ p.database = "none")
        /\ p.kind = "sqlite" => (~p.host /\ p.database \in {"none", "path"})
        /\ p.kind = "redis" => (~p.host => p.database = "none")}

\* The profiles a run of adapter a draws from: every profile of kind a, one
\* profile of another kind (the code compares db_type with its own kind only)
\* and the absent profile.
OtherKind(a) == IF a = "mysql" THEN "memcached" ELSE "mysql"
ProfilesFor(a) ==
    {p \in Profiles : p.kind \in {a, OtherKind(a)}} \cup {NoProfile}

\* str::parse::<u32>() of the database column: the number, or -1 for Err.
ParseU32(s) ==
    IF \E n \in DbIdx : ToString(n) = s
    THEN CHOOSE n \in DbIdx : ToString(n) = s
    ELSE 0 - 1

\* Mutant: the profile's database is not looked at.
DefaultDbIndexZero(p) == 0

\* connection.database.as_deref().unwrap_or("0").parse::<u32>().unwrap_or(0)
DefaultDbIndex(p) ==
    LET s == IF p.database = "none" THEN "0" ELSE p.database
        n == ParseU32(s)
    IN IF n < 0 THEN 0 ELSE n

\* ------------------------------------------------------------------ commands
Ops == {"execute_sql", "execute_sqlite_sql", "execute_redis_command",
        "get_memcached_value", "get_memcached_keys"}

AdapterOf(op) ==
    CASE op = "execute_sql" -> "mysql"
      [] op = "execute_sqlite_sql" -> "sqlite"
      [] op = "execute_redis_command" -> "redis"
      [] op = "get_keys_details" -> "redis"
      [] OTHER -> "memcached"

Relational == {"mysql", "sqlite"}
Cached == {"mysql", "sqlite", "redis"}

VARIABLES
    profiles,       \* the connections table: ConnIds -> profile or NoProfile
    pools,          \* AppState.pools: connection id -> handle id (0: absent)
    sqlite_pools,   \* AppState.sqlite_pools
    redis_clients,  \* AppState.redis_clients: <<connection id, db>> -> handle id
    lock,           \* the three tokio Mutexes: adapter -> holding task (0: free)
    handles,        \* every handle opened so far, by id
    tasks,          \* the callers
    backend,        \* the adapter whose commands the callers of this run invoke
    calls,          \* the number of commands invoked so far
    insertLog,      \* history: per registry key, the handle id inserted last
    sqlText,        \* classification: the command text
    sqlAdapter,     \* classification: the adapter that classified it
    sqlClass,       \* classification: "read" or "write"
    fun,            \* result shaping: the function applied ("none": not yet)
    arg,            \* result shaping: what the backend handed to the function
    ret,            \* result shaping: what the function returned
    enum            \* key enumeration: the locals of list_keys_via_tcp as it runs

vars == <<profiles, pools, sqlite_pools, redis_clients, lock, handles, tasks,
          backend, calls, insertLog, sqlText, sqlAdapter, sqlClass, fun, arg, ret,
          enum>>

regVars == <<pools, sqlite_pools, redis_clients>>
\* What no command of the handle registry changes.
otherVars == <<backend, sqlText, sqlAdapter, sqlClass, fun, arg, ret, enum>>

RegKeys == {<<a, c, n>> \in Cached \X ConnIds \X DbIdx : a \in Relational => n = 0}

NoPrev == [a |-> "none", conn |-> 0, db |-> NoDb, ns |-> 0, h |-> 0]

\* A caller between two commands.  prev is the outcome of the caller's last
\* resolve when no other caller has run a resolve step since.
IdleTask(prev) ==
    [pc |-> "idle", op |-> "none", conn |-> 0, db |-> NoDb, idx |-> NoDb,
     h |-> 0, res |-> 0, err |-> "", out |-> "", prof |-> NoProfile,
     fetched |-> FALSE, attempts |-> 0, opened |-> FALSE, inserted |-> FALSE,
     hit |-> 0, hitClosed |-> FALSE, stale |-> 0, kindSeen |-> "none",
     prev |-> prev, fresh |-> FALSE, empty |-> FALSE]

\* ------------------------------------------------------------------ helpers
\* The registry entry of key <<c, n>> of adapter a (0: absent).
Reg(a, c, n) ==
    CASE a = "mysql" -> pools[c]
      [] a = "sqlite" -> sqlite_pools[c]
      [] a = "redis" -> redis_clients[<<c, n>>]
      [] OTHER -> 0

\* Mutant: entry(key).or_insert(h), the first insert wins.
RegistryInsertIfAbsent(reg, key, h) ==
    IF reg[key] = 0 THEN [reg EXCEPT ![key] = h] ELSE reg

\* Mutant: the new handle is not stored.
RegistryInsertNothing(reg, key, h) == reg

\* HashMap::insert: the entry of the key becomes h, whatever it was.
RegistryInsert(reg, key, h) == [reg EXCEPT ![key] = h]

SetReg(a, c, n, h) ==
    /\ pools' = IF a = "mysql" THEN RegistryInsert(pools, c, h) ELSE pools
    /\ sqlite_pools' = IF a = "sqlite" THEN RegistryInsert(sqlite_pools, c, h)
                       ELSE sqlite_pools
    /\ redis_clients' = IF a = "redis" THEN RegistryInsert(redis_clients, <<c, n>>, h)
                        ELSE redis_clients

\* A pool or client as connect returns it: one owner, the local variable.
NewHandle(a, c, n) == [a |-> a, conn |-> c, ns |-> n, closed |-> FALSE, refs |-> 1]

\* clone() of a handle.
AddRef(hs, h) == [hs EXCEPT ![h].refs = @ + 1]

\* A handle whose last owner dropped it: the pool or client is gone.
Dropped == [a |-> "none", conn |-> 0, ns |-> 0, closed |-> FALSE, refs |-> 0]

\* Mutant: an owner goes away without releasing the handle.
DropRefLeak(hs, h) == hs

\* drop of one owner of a handle; the handle is live while refs > 0.
DropRef(hs, h) ==
    IF h = 0 THEN hs
    ELSE IF hs[h].refs = 1 THEN [hs EXCEPT ![h] = Dropped]
    ELSE [hs EXCEPT ![h].refs = @ - 1]

Live(h) == handles[h].refs > 0

\* Another caller's resolve step ends "no other resolve in between".
Disturb(r) == [r EXCEPT !.prev = NoPrev, !.fresh = FALSE]

\* A step of resolve of task t.
Upd(t, rec) == tasks' = [u \in Tasks |-> IF u = t THEN rec ELSE Disturb(tasks[u])]

\* A step of task t after resolve returned.
UpdQuiet(t, rec) == tasks' = [tasks EXCEPT ![t] = rec]

\* Err(e)? : the command returns the error to its caller.
Fail(r, e) == [r EXCEPT !.pc = "done", !.err = e]

\* resolve returned Ok(handle)
Resolved(r, h) == [r EXCEPT !.pc = "resolved", !.h = h, !.res = h, !.fresh = TRUE]

\* Mutant: the guard of the first lookup lives to the end of the function.
LockKeptAfterLookup(a) == lock

\* The guard of the first lookup is dropped at the end of its block.
LockAfterLookup(a) == [lock EXCEPT ![a] = 0]

\* Mutant: the kind of the profile is not checked.
KindUnchecked(a, p) == TRUE

\* if connection.db_type != "<kind>" { return Err(..) }
KindOk(a, p) == p.kind = a

\* Mutant: no health check.
NeverClosed(h) == FALSE

\* pool.is_closed()
IsClosed(h) == handles[h].closed

\* Mutant: every resolve reads the profile before it looks the key up.
FirstStepFetch(a, db) == "fetch"

\* Where resolve begins: the relational adapters and a keyvalue call with an
\* explicit db look the key up first; a keyvalue call without db and the cache
\* adapter read the profile first.
FirstStep(a, db) ==
    IF a \in Relational \/ (a = "redis" /\ db # NoDb) THEN "lock1" ELSE "fetch"

\* ------------------------------------------------------------------ Init
Init ==
    /\ backend \in Kinds
    /\ profiles \in [ConnIds -> ProfilesFor(backend)]
    /\ pools = [c \in ConnIds |-> 0]
    /\ sqlite_pools = [c \in ConnIds |-> 0]
    /\ redis_clients = [k \in ConnIds \X DbIdx |-> 0]
    /\ lock = [a \in Cached |-> 0]
    /\ handles = <<>>
    /\ tasks = [t \in Tasks |-> IdleTask(NoPrev)]
    /\ calls = 0
    /\ insertLog = [k \in RegKeys |-> 0]
    /\ sqlText = <<>>
    /\ sqlAdapter = "none"
    /\ sqlClass = "none"
    /\ fun = "none"
    /\ arg = <<>>
    /\ ret = <<>>
    /\ enum = <<>>

\* ------------------------------------------------------------------ resolve
\* A get_keys_details that skips its keys.is_empty() test.
NeverReturnsEarly(op, keys_empty) == FALSE

\* get_keys_details: if keys.is_empty() { return Ok(vec![]); }, the first
\* statement of the command, before get_or_create_redis_client.
ReturnsEarly(op, keys_empty) == op = "get_keys_details" /\ keys_empty

\* A caller invokes one of the commands ops: its resolve starts, or the
\* command returns at once without one.
StartWithin(t, limit, ops) ==
    /\ tasks[t].pc = "idle"
    /\ calls < limit
    /\ calls' = calls + 1
    /\ \E op \in ops, c \in ConnIds, db \in DbIdx \cup {NoDb},
          keys_empty \in BOOLEAN :
        LET a == AdapterOf(op) IN
        /\ a = backend
        /\ a # "redis" => db = NoDb
        /\ keys_empty => op = "get_keys_details"
        /\ Upd(t, [IdleTask(tasks[t].prev) EXCEPT
                     !.op = op, !.conn = c, !.db = db,
                     !.idx = IF a = "redis" THEN db ELSE 0,
                     !.empty = keys_empty,
                     !.out = IF ReturnsEarly(op, keys_empty)
                             THEN "empty" ELSE "",
                     !.pc = IF ReturnsEarly(op, keys_empty)
                            THEN "done" ELSE FirstStep(a, db)])
    /\ UNCHANGED <<profiles, regVars, lock, handles, insertLog, otherVars>>

Start(t) == StartWithin(t, MaxCalls, Ops)

\* registry.lock().await returns the guard.
Acquire(t) ==
    LET r == tasks[t]
        a == AdapterOf(r.op) IN
    /\ r.pc \in {"lock1", "lock1b", "lock2"}
    /\ lock[a] = 0
    /\ lock' = [lock EXCEPT ![a] = t]
    /\ Upd(t, [r EXCEPT !.pc = CASE r.pc = "lock1" -> "lookup"
                                  [] r.pc = "lock1b" -> "lookup2"
                                  [] OTHER -> "insert"])
    /\ UNCHANGED <<calls, profiles, regVars, handles, insertLog, otherVars>>

\* relational step 1: the cached pool is returned unless it is closed.
LookupPool(t) ==
    LET r == tasks[t]
        a == AdapterOf(r.op)
        h == Reg(a, r.conn, 0) IN
    /\ r.pc = "lookup"
    /\ a \in Relational
    /\ lock[a] = t
    /\ IF h # 0 /\ ~IsClosed(h)
       THEN /\ handles' = AddRef(handles, h)
            /\ lock' = [lock EXCEPT ![a] = 0]
            /\ Upd(t, Resolved([r EXCEPT !.hit = h,
                                          !.hitClosed = handles[h].closed], h))
       ELSE /\ handles' = handles
            /\ lock' = LockAfterLookup(a)
            /\ Upd(t, [r EXCEPT !.pc = "fetch", !.stale = h])
    /\ UNCHANGED <<calls, profiles, regVars, insertLog, otherVars>>

\* keyvalue steps 1 and 4: the cached client is returned; there is no health check.
LookupClient(t) ==
    LET r == tasks[t]
        h == Reg("redis", r.conn, r.idx) IN
    /\ r.pc \in {"lookup", "lookup2"}
    /\ AdapterOf(r.op) = "redis"
    /\ lock["redis"] = t
    /\ IF h # 0
       THEN /\ handles' = AddRef(handles, h)
            /\ lock' = [lock EXCEPT !["redis"] = 0]
            /\ Upd(t, Resolved([r EXCEPT !.hit = h], h))
       ELSE /\ handles' = handles
            /\ lock' = LockAfterLookup("redis")
            /\ Upd(t, [r EXCEPT !.pc = IF r.pc = "lookup" THEN "fetch" ELSE "open"])
    /\ UNCHANGED <<calls, profiles, regVars, insertLog, otherVars>>

\* The profile is read from the connections table and its kind checked.
FetchProfile(t) ==
    LET r == tasks[t]
        a == AdapterOf(r.op)
        p == profiles[r.conn]
        f == [r EXCEPT !.fetched = TRUE, !.kindSeen = p.kind] IN
    /\ r.pc = "fetch"
    /\ \/ Upd(t, Fail(f, "FetchFailed"))
       \/ /\ p = NoProfile
          /\ Upd(t, Fail(f, "ProfileNotFound"))
       \/ /\ p # NoProfile
          /\ ~KindOk(a, p)
          /\ Upd(t, Fail(f, "KindMismatch"))
       \/ /\ p # NoProfile
          /\ KindOk(a, p)
          /\ a = "sqlite"
          /\ p.database = "none"
          /\ Upd(t, Fail(f, "DatabasePathRequired"))
       \/ /\ p # NoProfile
          /\ KindOk(a, p)
          /\ a = "sqlite" => p.database # "none"
          /\ Upd(t, [f EXCEPT !.prof = p,
                       !.idx = IF a = "redis" /\ r.db = NoDb
                               THEN DefaultDbIndex(p) ELSE r.idx,
                       !.pc = IF a = "redis" THEN "lock1b" ELSE "connect"])
    /\ UNCHANGED <<calls, profiles, regVars, lock, handles, insertLog, otherVars>>

\* keyvalue steps 5 and 6: the URL is built and redis::Client::open parses it;
\* no connection is made here.
OpenClient(t) ==
    LET r == tasks[t] IN
    /\ r.pc = "open"
    /\ \/ /\ ~r.prof.host
          /\ Upd(t, Fail(r, "HostRequired"))
          /\ handles' = handles
       \/ /\ r.prof.host
          /\ Upd(t, Fail(r, "ClientOpenFailed"))
          /\ handles' = handles
       \/ /\ r.prof.host
          /\ handles' = Append(handles, NewHandle("redis", r.conn, r.idx))
          /\ Upd(t, [r EXCEPT !.pc = "lock2", !.h = Len(handles) + 1, !.opened = TRUE])
    /\ UNCHANGED <<calls, profiles, regVars, lock, insertLog, otherVars>>

\* relational step 4 and Client::connect of the cache adapter: the backend is
\* contacted and a pool (a client) is opened, or the connection fails.
Connect(t) ==
    LET r == tasks[t]
        a == AdapterOf(r.op)
        c == [r EXCEPT !.attempts = @ + 1] IN
    /\ r.pc = "connect"
    /\ \/ /\ Upd(t, Fail(c, "ConnectFailed"))
          /\ handles' = handles
       \/ /\ handles' = Append(handles, NewHandle(a, r.conn, 0))
          /\ Upd(t, IF a = "memcached"
                    THEN Resolved([c EXCEPT !.opened = TRUE], Len(handles) + 1)
                    ELSE [c EXCEPT !.pc = "lock2", !.h = Len(handles) + 1,
                                   !.opened = TRUE])
    /\ UNCHANGED <<calls, profiles, regVars, lock, insertLog, otherVars>>

\* step 5 (7): a clone of the new handle is stored under the key; the entry it
\* replaces is dropped; the guard is dropped on return.
Insert(t) ==
    LET r == tasks[t]
        a == AdapterOf(r.op)
        old == Reg(a, r.conn, r.idx) IN
    /\ r.pc = "insert"
    /\ lock[a] = t
    /\ SetReg(a, r.conn, r.idx, r.h)
    /\ handles' = DropRef(AddRef(handles, r.h), old)
    /\ lock' = [lock EXCEPT ![a] = 0]
    /\ insertLog' = [insertLog EXCEPT ![<<a, r.conn, r.idx>>] = r.h]
    /\ Upd(t, Resolved([r EXCEPT !.inserted = TRUE], r.h))
    /\ UNCHANGED <<calls, profiles, otherVars>>

\* ------------------------------------------------------------ classification
\* A command text is a sequence of characters.
LowerAlpha == <<"a", "b", "c", "d", "e", "f", "g", "h", "i", "j", "k", "l", "m",
                "n", "o", "p", "q", "r", "s", "t", "u", "v", "w", "x", "y", "z">>
UpperAlpha == <<"A", "B", "C", "D", "E", "F", "G", "H", "I", "J", "K", "L", "M",
                "N", "O", "P", "Q", "R", "S", "T", "U", "V", "W", "X", "Y", "Z">>
WhiteSpace == {" ", "\t"}

\* char::to_uppercase on ASCII
ToUpperChar(c) ==
    IF \E i \in DOMAIN LowerAlpha : LowerAlpha[i] = c
    THEN UpperAlpha[CHOOSE i \in DOMAIN LowerAlpha : LowerAlpha[i] = c]
    ELSE c

ToLowerChar(c) ==
    IF \E i \in DOMAIN UpperAlpha : UpperAlpha[i] = c
    THEN LowerAlpha[CHOOSE i \in DOMAIN UpperAlpha : UpperAlpha[i] = c]
    ELSE c

\* str::to_uppercase
ToUppercase(s) == [i \in DOMAIN s |-> ToUpperChar(s[i])]

RECURSIVE TrimStart(_)
TrimStart(s) ==
    IF s # <<>> /\ Head(s) \in WhiteSpace THEN TrimStart(Tail(s)) ELSE s

RECURSIVE TrimEnd(_)
TrimEnd(s) ==
    IF s # <<>> /\ s[Len(s)] \in WhiteSpace
    THEN TrimEnd(SubSeq(s, 1, Len(s) - 1)) ELSE s

\* Mutant: the text is not trimmed.
NoTrim(s) == s

\* str::trim
Trim(s) == TrimEnd(TrimStart(s))

\* str::starts_with
StartsWith(s, p) == Len(s) >= Len(p) /\ SubSeq(s, 1, Len(p)) = p

KwSelect == <<"S", "E", "L", "E", "C", "T">>
KwShow == <<"S", "H", "O", "W">>
KwDescribe == <<"D", "E", "S", "C", "R", "I", "B", "E">>
KwExplain == <<"E", "X", "P", "L", "A", "I", "N">>
KwPragma == <<"P", "R", "A", "G", "M", "A">>

\* execute_sql: the prefixes that make a text a query
MysqlReadPrefixes == {KwSelect, KwShow, KwDescribe, KwExplain}

\* execute_sqlite_sql: the prefixes that make a text a query
SqliteReadPrefixes == {KwSelect, KwPragma, KwExplain}

\* let sql_upper = sql.trim().to_uppercase(); if sql_upper.starts_with(..) || ..
ClassifyWith(prefixes, sql) ==
    LET sql_upper == ToUppercase(Trim(sql)) IN
    IF \E p \in prefixes : StartsWith(sql_upper, p) THEN "read" ELSE "write"

ClassifyMysql(sql) == ClassifyWith(MysqlReadPrefixes, sql)

ClassifySqlite(sql) == ClassifyWith(SqliteReadPrefixes, sql)

Classify(a, sql) == IF a = "mysql" THEN ClassifyMysql(sql) ELSE ClassifySqlite(sql)

\* The command texts the model draws from: optional white space, a leading
\* word in upper, lower or mixed case, and a rest.
RECURSIVE PadsOfLen(_)
PadsOfLen(n) ==
    IF n = 0 THEN {<<>>}
    ELSE {<<w>> \o p : w \in WhiteSpace, p \in PadsOfLen(n - 1)}

Pads == UNION {PadsOfLen(n) : n \in 0..MaxPad}

LeadWords ==
    {KwSelect, KwShow, KwDescribe, KwExplain, KwPragma,
     <<"U", "P", "D", "A", "T", "E">>, <<"D", "E", "S", "C">>,
     <<"W", "I", "T", "H">>, <<"(", "S", "E", "L", "E", "C", "T">>, <<>>}

CaseForms(w) ==
    {w, [i \in DOMAIN w |-> ToLowerChar(w[i])],
     [i \in DOMAIN w |-> IF i = 1 THEN w[i] ELSE ToLowerChar(w[i])]}

Rests == {<<>>, <<" ", "t">>, <<"x">>, <<" ", "t", " ">>}

\* " select * from t" and "UPDATE t SET x=1"
ExampleRead == <<" ", "s", "e", "l", "e", "c", "t", " ", "*", " ",
                 "f", "r", "o", "m", " ", "t">>
ExampleWrite == <<"U", "P", "D", "A", "T", "E", " ", "t", " ",
                  "S", "E", "T", " ", "x", "=", "1">>

SqlTexts ==
    {p \o c \o r : p \in Pads, c \in UNION {CaseForms(w) : w \in LeadWords},
                   r \in Rests}
    \cup {ExampleRead, ExampleWrite}

\* What the classification of adapter a can answer over the command texts.
MysqlClasses == {ClassifyMysql(sql) : sql \in SqlTexts}
SqliteClasses == {ClassifySqlite(sql) : sql \in SqlTexts}
Classes(a) == IF a = "mysql" THEN MysqlClasses ELSE SqliteClasses

\* ------------------------------------------------------------------ commands
\* execute_sql / execute_sqlite_sql after resolve: the text is classified and
\* sent to the pool; the result or the backend's error is returned.
ExecuteSql(t) ==
    LET r == tasks[t]
        a == AdapterOf(r.op) IN
    /\ r.pc = "resolved"
    /\ a \in Relational
    /\ \/ \E class \in Classes(a) :
            UpdQuiet(t, [r EXCEPT !.pc = "done", !.out = class])
       \/ UpdQuiet(t, Fail(r, "CommandFailed"))
    /\ UNCHANGED <<calls, profiles, regVars, lock, handles, insertLog, otherVars>>

\* get_redis_connection_with_retry: client.get_multiplexed_async_connection()
GetConnection(t) ==
    LET r == tasks[t]
        c == [r EXCEPT !.attempts = @ + 1] IN
    /\ r.pc = "resolved"
    /\ AdapterOf(r.op) = "redis"
    /\ \/ UpdQuiet(t, [c EXCEPT !.pc = "session"])
       \/ UpdQuiet(t, Fail(c, "ConnectFailed"))
    /\ UNCHANGED <<calls, profiles, regVars, lock, handles, insertLog, otherVars>>

\* execute_redis_command: cmd.query_async(&mut con);
\* get_keys_details: pipe.query_async(&mut con)
RedisCommand(t) ==
    LET r == tasks[t] IN
    /\ r.pc = "session"
    /\ \/ UpdQuiet(t, [r EXCEPT !.pc = "done", !.out = "value"])
       \/ UpdQuiet(t, Fail(r, "CommandFailed"))
    /\ UNCHANGED <<calls, profiles, regVars, lock, handles, insertLog, otherVars>>

\* get_memcached_value: client.get(&key)
MemcachedGet(t) ==
    LET r == tasks[t] IN
    /\ r.pc = "resolved"
    /\ r.op = "get_memcached_value"
    /\ \/ UpdQuiet(t, [r EXCEPT !.pc = "done", !.out = "value"])
       \/ UpdQuiet(t, Fail(r, "CommandFailed"))
    /\ UNCHANGED <<calls, profiles, regVars, lock, handles, insertLog, otherVars>>

\* get_memcached_keys: client.stats() as a connectivity check; the client is
\* dropped with the blocking closure.
MemcachedStats(t) ==
    LET r == tasks[t] IN
    /\ r.pc = "resolved"
    /\ r.op = "get_memcached_keys"
    /\ handles' = DropRef(handles, r.h)
    /\ \/ UpdQuiet(t, [r EXCEPT !.pc = "list_fetch", !.h = 0])
       \/ UpdQuiet(t, Fail([r EXCEPT !.h = 0], "CommandFailed"))
    /\ UNCHANGED <<calls, profiles, regVars, lock, insertLog, otherVars>>

\* list_keys_via_tcp: the profile is read again; its kind is not looked at.
ListFetch(t) ==
    LET r == tasks[t]
        p == profiles[r.conn] IN
    /\ r.pc = "list_fetch"
    /\ \/ UpdQuiet(t, Fail(r, "FetchFailed"))
       \/ /\ p = NoProfile
          /\ UpdQuiet(t, Fail(r, "ProfileNotFound"))
       \/ /\ p # NoProfile
          /\ UpdQuiet(t, [r EXCEPT !.pc = "tcp", !.prof = p])
    /\ UNCHANGED <<calls, profiles, regVars, lock, handles, insertLog, otherVars>>

\* list_keys_via_tcp: TcpStream::connect(addr)
TcpConnect(t) ==
    LET r == tasks[t]
        c == [r EXCEPT !.attempts = @ + 1] IN
    /\ r.pc = "tcp"
    /\ \/ UpdQuiet(t, [c EXCEPT !.pc = "enum"])
       \/ UpdQuiet(t, Fail(c, "ConnectFailed"))
    /\ UNCHANGED <<calls, profiles, regVars, lock, handles, insertLog, otherVars>>

\* list_keys_via_tcp: the request/response exchange, then the filter
Enumerate(t) ==
    LET r == tasks[t] IN
    /\ r.pc = "enum"
    /\ \/ UpdQuiet(t, [r EXCEPT !.pc = "done", !.out = "keys"])
       \/ UpdQuiet(t, Fail(r, "CommandFailed"))
    /\ UNCHANGED <<calls, profiles, regVars, lock, handles, insertLog, otherVars>>

\* The command returns to its caller, which drops the handle it was given.
Finish(t) ==
    LET r == tasks[t] IN
    /\ r.pc = "done"
    /\ handles' = DropRef(handles, r.h)
    /\ UpdQuiet(t, IdleTask(IF r.fresh /\ r.res # 0
                            THEN [a |-> AdapterOf(r.op), conn |-> r.conn,
                                  db |-> r.db, ns |-> r.idx, h |-> r.res]
                            ELSE NoPrev))
    /\ UNCHANGED <<calls, profiles, regVars, lock, insertLog, otherVars>>

\* -------------------------------------------------------------- environment
\* The profile store's create_connection, update_connection, delete_connection.
EditProfile ==
    /\ \E c \in ConnIds, p \in ProfilesFor(backend) :
        /\ p # profiles[c]
        /\ profiles' = [profiles EXCEPT ![c] = p]
    /\ UNCHANGED <<calls, regVars, lock, handles, tasks, insertLog, otherVars>>

\* A live pool becomes closed (what pool.is_closed() reports).
ClosePool ==
    /\ \E h \in DOMAIN handles :
        /\ handles[h].a \in Relational
        /\ Live(h)
        /\ ~handles[h].closed
        /\ handles' = [handles EXCEPT ![h].closed = TRUE]
    /\ UNCHANGED <<calls, profiles, regVars, lock, tasks, insertLog, otherVars>>

Next ==
    \/ \E t \in Tasks :
        \/ Start(t)
        \/ Acquire(t)
        \/ LookupPool(t)
        \/ LookupClient(t)
        \/ FetchProfile(t)
        \/ OpenClient(t)
        \/ Connect(t)
        \/ Insert(t)
        \/ ExecuteSql(t)
        \/ GetConnection(t)
        \/ RedisCommand(t)
        \/ MemcachedGet(t)
        \/ MemcachedStats(t)
        \/ ListFetch(t)
        \/ TcpConnect(t)
        \/ Enumerate(t)
        \/ Finish(t)
    \/ EditProfile
    \/ ClosePool

Spec == Init /\ [][Next]_vars

\* ------------------------------------------------ first-use races and after
\* Runs of one more command than Spec allows (two racing callers and a later
\* resolve), over the adapters that cache handles, with a profile resolve
\* accepts and a profile store that is not edited.
MaxRaceCalls == 3

GoodProfile(a) ==
    [kind |-> a, host |-> a # "sqlite",
     database |-> IF a = "sqlite" THEN "path" ELSE "none"]

InitRace ==
    /\ backend \in Cached
    /\ profiles = [c \in ConnIds |-> GoodProfile(backend)]
    /\ pools = [c \in ConnIds |-> 0]
    /\ sqlite_pools = [c \in ConnIds |-> 0]
    /\ redis_clients = [k \in ConnIds \X DbIdx |-> 0]
    /\ lock = [a \in Cached |-> 0]
    /\ handles = <<>>
    /\ tasks = [t \in Tasks |-> IdleTask(NoPrev)]
    /\ calls = 0
    /\ insertLog = [k \in RegKeys |-> 0]
    /\ sqlText = <<>>
    /\ sqlAdapter = "none"
    /\ sqlClass = "none"
    /\ fun = "none"
    /\ arg = <<>>
    /\ ret = <<>>
    /\ enum = <<>>

StartRace(t) == StartWithin(t, MaxRaceCalls, Ops)

NextRace ==
    \/ \E t \in Tasks :
        \/ StartRace(t)
        \/ Acquire(t)
        \/ LookupPool(t)
        \/ LookupClient(t)
        \/ FetchProfile(t)
        \/ OpenClient(t)
        \/ Connect(t)
        \/ Insert(t)
        \/ ExecuteSql(t)
        \/ GetConnection(t)
        \/ RedisCommand(t)
        \/ Finish(t)
    \/ ClosePool

SpecRace == InitRace /\ [][NextRace]_vars

\* ------------------------------------- the keyvalue commands as their own system
\* execute_redis_command and get_keys_details against every profile the store
\* can hold for the connection id.
MaxRedisCalls == 2

RedisOps == {"execute_redis_command", "get_keys_details"}

InitRedis ==
    /\ backend = "redis"
    /\ profiles \in [ConnIds -> ProfilesFor(backend)]
    /\ pools = [c \in ConnIds |-> 0]
    /\ sqlite_pools = [c \in ConnIds |-> 0]
    /\ redis_clients = [k \in ConnIds \X DbIdx |-> 0]
    /\ lock = [a \in Cached |-> 0]
    /\ handles = <<>>
    /\ tasks = [t \in Tasks |-> IdleTask(NoPrev)]
    /\ calls = 0
    /\ insertLog = [k \in RegKeys |-> 0]
    /\ sqlText = <<>>
    /\ sqlAdapter = "none"
    /\ sqlClass = "none"
    /\ fun = "none"
    /\ arg = <<>>
    /\ ret = <<>>
    /\ enum = <<>>

StartRedis(t) == StartWithin(t, MaxRedisCalls, RedisOps)

NextRedis ==
    \/ \E t \in Tasks :
        \/ StartRedis(t)
        \/ Acquire(t)
        \/ LookupClient(t)
        \/ FetchProfile(t)
        \/ OpenClient(t)
        \/ Insert(t)
        \/ GetConnection(t)
        \/ RedisCommand(t)
        \/ Finish(t)

SpecRedis == InitRedis /\ [][NextRedis]_vars

\* ------------------------------------------- classification as its own system
InitClassify ==
    /\ profiles = [c \in ConnIds |-> NoProfile]
    /\ pools = [c \in ConnIds |-> 0]
    /\ sqlite_pools = [c \in ConnIds |-> 0]
    /\ redis_clients = [k \in ConnIds \X DbIdx |-> 0]
    /\ lock = [a \in Cached |-> 0]
    /\ handles = <<>>
    /\ tasks = [t \in Tasks |-> IdleTask(NoPrev)]
    /\ backend = "none"
    /\ calls = 0
    /\ insertLog = [k \in RegKeys |-> 0]
    /\ sqlText \in SqlTexts
    /\ sqlAdapter = "none"
    /\ sqlClass = "none"
    /\ fun = "none"
    /\ arg = <<>>
    /\ ret = <<>>
    /\ enum = <<>>

\* The classification step of execute_sql / execute_sqlite_sql on sqlText.
ClassifyStep ==
    /\ sqlAdapter = "none"
    /\ \E a \in Relational :
        /\ sqlAdapter' = a
        /\ sqlClass' = Classify(a, sqlText)
    /\ UNCHANGED <<backend, calls, profiles, regVars, lock, handles, tasks,
                   insertLog, sqlText, fun, arg, ret, enum>>

NextClassify == ClassifyStep

SpecClassify == InitClassify /\ [][NextClassify]_vars

\* ====================================================================== claims
TaskKey(r) == <<AdapterOf(r.op), r.conn, r.idx>>
HandleKey(h) == <<handles[h].a, handles[h].conn, handles[h].ns>>
RegOf(k) == Reg(k[1], k[2], k[3])
InCall(r) == r.pc # "idle"
\* resolve of the current command returned a handle
Returned(r) == InCall(r) /\ r.res # 0
\* resolve of the current command returned an error
ResolveFailed(r) == r.pc = "done" /\ r.res = 0
LiveFor(k) == {h \in DOMAIN handles : Live(h) /\ HandleKey(h) = k}

\* C1: in a first-use race of the relational and keyvalue adapters every
\* caller whose connect succeeded gets a handle from resolve (resolve never
\* fails once the handle is open), and when the racing callers have returned
\* the registry holds for the key the handle that was inserted last, which is
\* one of theirs.
C1_RaceLastInsertWins ==
    /\ \A k \in RegKeys : RegOf(k) = insertLog[k]
    /\ \A t \in Tasks :
        LET r == tasks[t] IN
        (InCall(r) /\ AdapterOf(r.op) \in Cached /\ r.opened) =>
            /\ r.pc \in {"lock2", "insert", "resolved", "session", "done"}
            /\ r.pc \in {"resolved", "session", "done"} => r.res = r.h /\ r.res # 0
            /\ \A u \in Tasks \ {t} :
                (/\ Returned(r) /\ Returned(tasks[u]) /\ tasks[u].opened
                 /\ TaskKey(tasks[u]) = TaskKey(r)) =>
                    /\ RegOf(TaskKey(r)) \in {r.res, tasks[u].res}
                    /\ RegOf(TaskKey(r)) = insertLog[TaskKey(r)]

\* C1 witness: two callers raced on one key, each opened a handle of its own
\* and both have returned from resolve.
C1_Witness ==
    \E t \in Tasks, u \in Tasks :
        /\ t # u
        /\ AdapterOf(tasks[t].op) \in Cached
        /\ Returned(tasks[t]) /\ Returned(tasks[u])
        /\ tasks[t].opened /\ tasks[u].opened
        /\ TaskKey(tasks[t]) = TaskKey(tasks[u])
        /\ tasks[t].res # tasks[u].res
        /\ RegOf(TaskKey(tasks[t])) = tasks[u].res

\* C2 as stated: at most one live handle per HandleKey in every state.
C2_AtMostOneLive ==
    \A k \in RegKeys : Cardinality(LiveFor(k)) <= 1

\* C2 amended: the registry keeps one handle per key; every other live handle
\* opened for the key is held by a caller whose command is still running, so
\* when no command runs at most one live handle per key exists and it is the
\* registry's.
C2_LiveIsRegistryOrHeld ==
    /\ \A h \in DOMAIN handles :
        (Live(h) /\ handles[h].a \in Cached) =>
            \/ RegOf(HandleKey(h)) = h
            \/ \E t \in Tasks : InCall(tasks[t]) /\ tasks[t].h = h
    /\ (\A t \in Tasks : ~InCall(tasks[t])) =>
            \A k \in RegKeys : LiveFor(k) \subseteq {RegOf(k)}

\* C2 witness: the race is over, the callers have returned and dropped their
\* handles; the loser's handle is gone and the registry's is live.
C2_Witness ==
    /\ \A t \in Tasks : ~InCall(tasks[t])
    /\ \E k \in RegKeys :
        /\ RegOf(k) # 0
        /\ Live(RegOf(k))
        /\ \E h \in DOMAIN handles : h # RegOf(k) /\ handles[h] = Dropped

\* C3: for the relational and keyvalue adapters, a resolve that follows a
\* successful resolve of the same caller on the same key, with no other
\* resolve in between and the pool not found closed by the lookup, returns
\* the handle of the first and opens and inserts nothing.
C3_ConsecutiveSameHandle ==
    \A t \in Tasks :
        LET r == tasks[t] IN
        (/\ AdapterOf(r.op) \in Cached
         /\ r.pc \in {"resolved", "session", "done"}
         /\ r.prev # NoPrev
         /\ <<r.prev.a, r.prev.conn, r.prev.ns>> = TaskKey(r)
         /\ r.stale = 0) =>
            /\ r.res = r.prev.h
            /\ ~r.opened
            /\ ~r.inserted

\* C3 witness: a second consecutive resolve has returned the first one's handle.
C3_Witness ==
    \E t \in Tasks :
        /\ AdapterOf(tasks[t].op) \in Cached
        /\ tasks[t].pc = "resolved"
        /\ tasks[t].prev # NoPrev
        /\ tasks[t].res = tasks[t].prev.h

\* C4 as stated: the cache adapter's second consecutive command on a
\* connection reuses the client the first one created.
C4_CacheClientReused ==
    \A t \in Tasks :
        LET r == tasks[t] IN
        (/\ AdapterOf(r.op) = "memcached"
         /\ Returned(r)
         /\ r.prev # NoPrev
         /\ r.prev.conn = r.conn) =>
            /\ r.res = r.prev.h
            /\ ~r.opened

\* C5: a relational pool that resolve finds closed is not returned: the
\* handle a lookup returns was not closed when it was looked up, and a
\* resolve that found a closed pool returns a handle it opened itself and has
\* inserted, after which the closed pool is no longer the registry's entry.
C5_ClosedNeverReturned ==
    \A t \in Tasks :
        LET r == tasks[t] IN
        (InCall(r) /\ AdapterOf(r.op) \in Relational) =>
            /\ r.hit # 0 => ~r.hitClosed
            /\ (r.stale # 0 /\ Returned(r)) =>
                    /\ r.res # r.stale
                    /\ r.opened
                    /\ r.inserted
            /\ (r.stale # 0 /\ Returned(r)) =>
                    RegOf(TaskKey(r)) \notin {0, r.stale}

\* C5 witness: a resolve found the cached pool closed and has returned a new one.
C5_Witness ==
    \E t \in Tasks :
        /\ AdapterOf(tasks[t].op) \in Relational
        /\ tasks[t].stale # 0
        /\ tasks[t].pc = "resolved"
        /\ RegOf(TaskKey(tasks[t])) = tasks[t].res
        /\ tasks[t].res # tasks[t].stale

\* C6 as stated: for every adapter, a command that fails because the
\* connection to the backend fails has put no entry in the registry.
C6_FailedConnectNotCached ==
    \A t \in Tasks :
        LET r == tasks[t] IN
        (r.pc = "done" /\ r.err = "ConnectFailed") =>
            ~r.inserted

\* C7: a caller holds a registry lock only at the lookup and at the insert of
\* resolve: whoever holds a lock is at one of these steps of that adapter's
\* resolve, and a caller that reads the profile, connects, opens a handle or
\* runs a command holds no lock.
C7_LockOnlyForLookupInsert ==
    /\ \A a \in Cached :
        lock[a] # 0 =>
            /\ tasks[lock[a]].pc \in {"lookup", "lookup2", "insert"}
            /\ AdapterOf(tasks[lock[a]].op) = a
    /\ \A t \in Tasks :
        tasks[t].pc \in {"fetch", "connect", "open", "resolved", "session",
                         "list_fetch", "tcp", "enum", "done", "idle"} =>
            \A a \in Cached : lock[a] # t

\* C7 witness: one caller is connecting (opening a handle) after a miss while
\* another caller holds the lock of the same registry.
C7_Witness ==
    \E t \in Tasks, u \in Tasks :
        /\ t # u
        /\ AdapterOf(tasks[t].op) \in Cached
        /\ tasks[t].pc \in {"connect", "open"}
        /\ lock[AdapterOf(tasks[t].op)] = u

\* C8: a resolve that finds no profile fails with ProfileNotFound and one that
\* finds a profile of another kind fails with KindMismatch; such a resolve has
\* attempted no connection, opened no handle and inserted nothing.  A resolve
\* that goes on to connect has read a profile of its own kind, and the cache
\* adapter's enumeration opens its byte stream only after the kind check of
\* the same command has passed.
C8_ProfileChecksBeforeConnect ==
    \A t \in Tasks :
        LET r == tasks[t]
            a == AdapterOf(r.op) IN
        InCall(r) =>
            /\ (ResolveFailed(r) /\ r.err = "ProfileNotFound") =>
                    r.fetched /\ r.kindSeen = NoProfile.kind
            /\ (ResolveFailed(r) /\ r.err = "KindMismatch") =>
                    r.fetched /\ r.kindSeen \notin {a, NoProfile.kind}
            /\ (ResolveFailed(r) /\ r.err \in {"ProfileNotFound", "KindMismatch"}) =>
                    /\ r.attempts = 0
                    /\ ~r.opened
                    /\ ~r.inserted
                    /\ r.h = 0
            /\ (r.fetched /\ r.kindSeen # a) => ResolveFailed(r)
            /\ r.pc \in {"connect", "lock1b", "lookup2", "open", "lock2", "insert"} =>
                    r.fetched /\ r.prof # NoProfile /\ r.prof.kind = a
            /\ r.pc \in {"list_fetch", "tcp", "enum"} =>
                    r.fetched /\ r.kindSeen = "memcached"

\* C8 witness: a resolve has failed with KindMismatch on a profile of another
\* kind and nothing is in the registry.
C8_Witness ==
    \E t \in Tasks :
        /\ ResolveFailed(tasks[t])
        /\ tasks[t].err = "KindMismatch"
        /\ tasks[t].kindSeen = OtherKind(AdapterOf(tasks[t].op))
        /\ \A k \in RegKeys : RegOf(k) = 0

\* The request of r is the request of the caller's last successful resolve.
SameRequest(r) ==
    /\ r.prev # NoPrev
    /\ r.prev.a = AdapterOf(r.op)
    /\ r.prev.conn = r.conn
    /\ r.prev.db = r.db

\* C9 as stated: while the handle of the last resolve is in the registry and
\* not found closed, a resolve of the same request, with or without an
\* explicit namespace, returns that handle and does not read the profile.
C9_ProfileOnlyOnMiss ==
    \A t \in Tasks :
        LET r == tasks[t] IN
        (/\ AdapterOf(r.op) \in Cached
         /\ r.pc \in {"resolved", "session", "done"}
         /\ SameRequest(r)
         /\ r.stale = 0) =>
            /\ r.res = r.prev.h
            /\ ~r.fetched

\* C9 amended: the above for the relational adapters and for keyvalue calls
\* with an explicit namespace; a keyvalue call without one reads the profile
\* on every resolve.
C9_ProfileOnlyOnMissExplicit ==
    \A t \in Tasks :
        LET r == tasks[t]
            a == AdapterOf(r.op) IN
        /\ (/\ a \in Relational \/ (a = "redis" /\ r.db # NoDb)
            /\ r.pc \in {"resolved", "session", "done"}
            /\ SameRequest(r)
            /\ r.stale = 0) =>
                /\ r.res = r.prev.h
                /\ ~r.fetched
        /\ (/\ a = "redis" /\ r.db = NoDb
            /\ r.pc \in {"lock1b", "lookup2", "open", "lock2", "insert",
                         "resolved", "session", "done"}) =>
                r.fetched

\* C9 witness: the profile is gone and the resolve has returned the cached
\* handle without reading the profile store.
C9_Witness ==
    \E t \in Tasks :
        LET r == tasks[t] IN
        /\ AdapterOf(r.op) \in Cached
        /\ r.pc = "resolved"
        /\ SameRequest(r)
        /\ profiles[r.conn] = NoProfile
        /\ r.res = r.prev.h
        /\ ~r.fetched

\* The letters of the alphabet, in either case.
Letters == {LowerAlpha[i] : i \in DOMAIN LowerAlpha}
           \cup {UpperAlpha[i] : i \in DOMAIN UpperAlpha}

\* The number of white-space characters a text begins with.
RECURSIVE LeadingSpace(_)
LeadingSpace(s) ==
    IF s # <<>> /\ Head(s) \in WhiteSpace THEN 1 + LeadingSpace(Tail(s)) ELSE 0

\* The number of letters a text begins with.
RECURSIVE LeadingLetters(_)
LeadingLetters(s) ==
    IF s # <<>> /\ Head(s) \in Letters THEN 1 + LeadingLetters(Tail(s)) ELSE 0

\* The leading keyword of a text: the letters that follow its leading white
\* space, in upper case.
LeadingKeyword(s) ==
    LET k == LeadingSpace(s)
        rest == SubSeq(s, k + 1, Len(s))
        n == LeadingLetters(rest) IN
    [i \in 1..n |-> ToUpperChar(rest[i])]

\* The text, after its leading white space, begins with kw in some case.
BeginsWithIgnoringCase(s, kw) ==
    LET k == LeadingSpace(s) IN
    /\ Len(s) >= k + Len(kw)
    /\ \A i \in 1..Len(kw) : ToUpperChar(s[k + i]) = kw[i]

\* C10 as stated: both relational adapters classify a text as read exactly
\* when its leading keyword is SELECT, SHOW, DESCRIBE, EXPLAIN or PRAGMA.
C10_ReadIffLeadingKeyword ==
    sqlAdapter # "none" =>
        (sqlClass = "read" <=>
            LeadingKeyword(sqlText) \in {KwSelect, KwShow, KwDescribe, KwExplain, KwPragma})

\* C10 amended: execute_sql classifies a text as read exactly when, after
\* its leading white space and ignoring case, it begins with SELECT, SHOW,
\* DESCRIBE or EXPLAIN, and execute_sqlite_sql exactly when it begins with
\* SELECT, PRAGMA or EXPLAIN; every other text is write.  " select * from t"
\* is read and "UPDATE t SET x=1" is write for both.
C10_ReadIffAdapterPrefix ==
    /\ sqlAdapter = "mysql" =>
        (sqlClass = "read" <=>
            \E kw \in {KwSelect, KwShow, KwDescribe, KwExplain} :
                BeginsWithIgnoringCase(sqlText, kw))
    /\ sqlAdapter = "sqlite" =>
        (sqlClass = "read" <=>
            \E kw \in {KwSelect, KwPragma, KwExplain} :
                BeginsWithIgnoringCase(sqlText, kw))
    /\ sqlAdapter # "none" => sqlClass \in {"read", "write"}
    /\ (sqlAdapter # "none" /\ sqlText = ExampleRead) => sqlClass = "read"
    /\ (sqlAdapter # "none" /\ sqlText = ExampleWrite) => sqlClass = "write"

\* C10 witness: execute_sqlite_sql has classified a padded lower-case
\* "show ..." text as write.
C10_Witness ==
    /\ sqlAdapter = "sqlite"
    /\ sqlClass = "write"
    /\ LeadingSpace(sqlText) > 0
    /\ LeadingKeyword(sqlText) = KwShow
    /\ sqlText[LeadingSpace(sqlText) + 1] = "s"

\* ============================================================ result shaping
\* ------------------------------------------------------------ canonical values
\* serde_json::Value as the normalizers build it.
JsonNull == [t |-> "Null"]
JsonBool(b) == [t |-> "Bool", b |-> b]
JsonNumber(n) == [t |-> "Number", n |-> n]
JsonFloat(f) == [t |-> "Number", f |-> f]
JsonString(str) == [t |-> "String", s |-> str]
JsonArray(items) == [t |-> "Array", items |-> items]

\* Result<T, E> of a typed read
Ok(v) == [ok |-> TRUE, v |-> v]
Err == [ok |-> FALSE]

\* -------------------------------------------------------------- native values
\* What a backend holds in a cell: NULL, an integer, a float (by its digits),
\* a text, a blob (its bytes read as text, and whether they are UTF-8), a
\* date, a time of day, a date and time.
NullValue == [k |-> "null"]
IntValue(n) == [k |-> "int", n |-> n]
FloatValue(f) == [k |-> "float", f |-> f]
TextValue(str) == [k |-> "text", s |-> str]
BlobValue(str, utf8) == [k |-> "blob", s |-> str, utf8 |-> utf8]
DateValue(d) == [k |-> "date", d |-> d]
TimeValue(tm) == [k |-> "time", tm |-> tm]
DateTimeValue(d, tm) == [k |-> "datetime", d |-> d, tm |-> tm]

IntSamples == {0, 1, 5}
IntValues == {IntValue(n) : n \in IntSamples}
FloatValues == {FloatValue("1.5")}
TextValues == {TextValue("abc")}
BlobValues == {BlobValue("abc", TRUE), BlobValue("\\xff", FALSE)}
DateSample == <<2024, 1, 2>>
TimeSample == <<3, 4, 5>>
DateValues == {DateValue(DateSample)}
TimeValues == {TimeValue(TimeSample)}
DateTimeValues == {DateTimeValue(DateSample, TimeSample)}

\* chrono Display: two digits for month, day, hour, minute and second
Pad2(n) == IF n < 10 THEN "0" \o ToString(n) ELSE ToString(n)
NaiveDateToString(d) == ToString(d[1]) \o "-" \o Pad2(d[2]) \o "-" \o Pad2(d[3])
NaiveTimeToString(tm) == Pad2(tm[1]) \o ":" \o Pad2(tm[2]) \o ":" \o Pad2(tm[3])
NaiveDateTimeToString(d, tm) == NaiveDateToString(d) \o " " \o NaiveTimeToString(tm)

\* ------------------------------------------------------------ mysql row_to_json
\* sqlx MySqlTypeInfo::name() of the column types the model draws from.
MysqlIntTypes == {"BOOLEAN", "TINYINT", "SMALLINT", "INT", "BIGINT",
                  "MEDIUMINT", "INT UNSIGNED"}
MysqlFloatTypes == {"FLOAT", "DOUBLE"}
MysqlTextTypes == {"VARCHAR", "TEXT"}
MysqlBlobTypes == {"BLOB", "VARBINARY"}
MysqlDateTimeTypes == {"DATETIME", "TIMESTAMP"}
MysqlTypes == MysqlIntTypes \cup MysqlFloatTypes \cup MysqlTextTypes
              \cup MysqlBlobTypes \cup MysqlDateTimeTypes \cup {"DATE", "TIME"}

\* The values a column of the type can hold, NULL apart.
MysqlValuesOf(type_name) ==
    CASE type_name \in MysqlIntTypes -> IntValues
      [] type_name \in MysqlFloatTypes -> FloatValues
      [] type_name \in MysqlTextTypes -> TextValues
      [] type_name \in MysqlBlobTypes -> BlobValues
      [] type_name \in MysqlDateTimeTypes -> DateTimeValues
      [] type_name = "DATE" -> DateValues
      [] OTHER -> TimeValues

\* The builds of sqlx differ in whether String accepts a binary column.
Builds == {"string_rejects_binary", "string_accepts_binary"}

\* row.try_get::<T, _>(i) of sqlx-mysql: Err on NULL and on a column type T
\* is not compatible with, else the decoded value.
MysqlTryGet(T, type_name, value, build) ==
    IF value.k = "null" THEN Err
    ELSE CASE T = "bool" ->
                IF type_name \in MysqlIntTypes THEN Ok(value.n # 0) ELSE Err
           [] T \in {"i8", "i16", "i32", "i64"} ->
                IF type_name \in MysqlIntTypes \ {"INT UNSIGNED"} THEN Ok(value.n)
                ELSE Err
           [] T \in {"f32", "f64"} ->
                IF type_name \in MysqlFloatTypes THEN Ok(value.f) ELSE Err
           [] T = "String" ->
                IF type_name \in MysqlTextTypes THEN Ok(value.s)
                ELSE IF /\ type_name \in MysqlBlobTypes
                        /\ build = "string_accepts_binary"
                        /\ value.utf8
                     THEN Ok(value.s)
                     ELSE Err
           [] T = "NaiveDateTime" ->
                IF type_name \in MysqlDateTimeTypes
                THEN Ok(NaiveDateTimeToString(value.d, value.tm)) ELSE Err
           [] T = "DateTime<Utc>" ->
                IF type_name \in MysqlDateTimeTypes
                THEN Ok(NaiveDateTimeToString(value.d, value.tm) \o " UTC") ELSE Err
           [] T = "NaiveDate" ->
                IF type_name = "DATE" THEN Ok(NaiveDateToString(value.d)) ELSE Err
           [] T = "NaiveTime" ->
                IF type_name = "TIME" THEN Ok(NaiveTimeToString(value.tm)) ELSE Err
           [] OTHER -> Err

\* .map(|v| Value::Number(v.into())).unwrap_or(Value::Null)
NumberOrNull(r) == IF r.ok THEN JsonNumber(r.v) ELSE JsonNull
FloatOrNull(r) == IF r.ok THEN JsonFloat(r.v) ELSE JsonNull
StringOrNull(r) == IF r.ok THEN JsonString(r.v) ELSE JsonNull

\* "BOOLEAN" | "TINYINT" => bool first, then i8
BoolOrInt(type_name, value, build) ==
    IF MysqlTryGet("bool", type_name, value, build).ok
    THEN JsonBool(MysqlTryGet("bool", type_name, value, build).v)
    ELSE NumberOrNull(MysqlTryGet("i8", type_name, value, build))

\* the match on type_name of mysql_manager::row_to_json
MysqlValueToJson(type_name, value, build) ==
    CASE type_name \in {"BOOLEAN", "TINYINT"} -> BoolOrInt(type_name, value, build)
      [] type_name = "SMALLINT" -> NumberOrNull(MysqlTryGet("i16", type_name, value, build))
      [] type_name \in {"INT", "INTEGER"} ->
            NumberOrNull(MysqlTryGet("i32", type_name, value, build))
      [] type_name = "BIGINT" -> NumberOrNull(MysqlTryGet("i64", type_name, value, build))
      [] type_name = "FLOAT" -> FloatOrNull(MysqlTryGet("f32", type_name, value, build))
      [] type_name \in {"DOUBLE", "REAL"} ->
            FloatOrNull(MysqlTryGet("f64", type_name, value, build))
      [] type_name \in {"VARCHAR", "CHAR", "TEXT", "TINYTEXT", "MEDIUMTEXT",
                        "LONGTEXT", "ENUM"} ->
            StringOrNull(MysqlTryGet("String", type_name, value, build))
      [] type_name \in {"DATETIME", "TIMESTAMP"} ->
            IF MysqlTryGet("NaiveDateTime", type_name, value, build).ok
            THEN JsonString(MysqlTryGet("NaiveDateTime", type_name, value, build).v)
            ELSE IF MysqlTryGet("DateTime<Utc>", type_name, value, build).ok
            THEN JsonString(MysqlTryGet("DateTime<Utc>", type_name, value, build).v)
            ELSE StringOrNull(MysqlTryGet("String", type_name, value, build))
      [] type_name = "DATE" ->
            StringOrNull(MysqlTryGet("NaiveDate", type_name, value, build))
      [] type_name = "TIME" ->
            StringOrNull(MysqlTryGet("NaiveTime", type_name, value, build))
      [] OTHER -> StringOrNull(MysqlTryGet("String", type_name, value, build))

\* ----------------------------------------------------------- sqlite row_to_json
\* The names column.type_info().name() can give: a storage class, or the type
\* the table declares.
SqliteTypes == {"NULL", "INTEGER", "REAL", "TEXT", "BLOB", "DATETIME", "BOOLEAN"}

\* The values a column reported under the name can hold, NULL apart.  The
\* engine is weakly typed: a column declared INTEGER also stores a float or a
\* text that is not a number as it is, a column declared REAL such a text.
SqliteValuesOf(type_name) ==
    CASE type_name = "NULL" -> {}
      [] type_name = "INTEGER" -> IntValues \cup FloatValues \cup TextValues
      [] type_name = "REAL" -> FloatValues \cup TextValues
      [] type_name = "TEXT" -> TextValues
      [] type_name = "BLOB" -> BlobValues
      [] type_name = "DATETIME" ->
            {TextValue(NaiveDateTimeToString(DateSample, TimeSample))} \cup IntValues
      [] OTHER -> IntValues

\* row.try_get::<T, _>(i) of sqlx-sqlite: Err on NULL and on a storage class T
\* is not compatible with, else the decoded value.
SqliteTryGet(T, value) ==
    IF value.k = "null" THEN Err
    ELSE CASE T = "i64" -> IF value.k = "int" THEN Ok(value.n) ELSE Err
           [] T = "bool" -> IF value.k = "int" THEN Ok(value.n # 0) ELSE Err
           [] T = "f64" -> IF value.k = "float" THEN Ok(value.f) ELSE Err
           [] T = "String" -> IF value.k = "text" THEN Ok(value.s) ELSE Err
           [] OTHER -> Err

\* Blob 暂不显示或显示占位符
BlobPlaceholder == "<BLOB>"

\* the match on type_name of sqlite_manager::row_to_json
SqliteValueToJson(type_name, value) ==
    CASE type_name = "NULL" -> JsonNull
      [] type_name = "INTEGER" ->
            IF SqliteTryGet("i64", value).ok
            THEN JsonNumber(SqliteTryGet("i64", value).v)
            ELSE IF SqliteTryGet("bool", value).ok
            THEN JsonBool(SqliteTryGet("bool", value).v)
            ELSE JsonNull
      [] type_name = "REAL" -> FloatOrNull(SqliteTryGet("f64", value))
      [] type_name = "TEXT" -> StringOrNull(SqliteTryGet("String", value))
      [] type_name = "BLOB" -> JsonString(BlobPlaceholder)
      [] OTHER ->
            IF SqliteTryGet("i64", value).ok
            THEN JsonNumber(SqliteTryGet("i64", value).v)
            ELSE IF SqliteTryGet("f64", value).ok
            THEN JsonFloat(SqliteTryGet("f64", value).v)
            ELSE StringOrNull(SqliteTryGet("String", value))

\* -------------------------------------------------------------- the result set
\* The rows fetch_all returns for a statement: the columns of the statement
\* and, per row, one value per column.
MaxRows == 2

ValueToJson(a, type_name, value, build) ==
    IF a = "mysql" THEN MysqlValueToJson(type_name, value, build)
    ELSE SqliteValueToJson(type_name, value)

\* row_to_json: json_row.insert(name, value) for every column, in order; a
\* later column of the same name replaces the earlier one.
RowToJson(a, columns, row, build) ==
    [name \in {columns[i].name : i \in DOMAIN columns} |->
        LET i == CHOOSE j \in DOMAIN columns :
                    /\ columns[j].name = name
                    /\ \A l \in DOMAIN columns : columns[l].name = name => l <= j
        IN ValueToJson(a, columns[i].type_name, row[i], build)]

TypesOf(a) == IF a = "mysql" THEN MysqlTypes ELSE SqliteTypes
ValuesOf(a, type_name) ==
    {NullValue} \cup (IF a = "mysql" THEN MysqlValuesOf(type_name)
                      ELSE SqliteValuesOf(type_name))

\* One column named "a" of every type; an integer and a text column, of one
\* name or of two.
ColumnLists(a) ==
    {<<[name |-> "a", type_name |-> ty]>> : ty \in TypesOf(a)}
    \cup {<<[name |-> "a", type_name |-> IF a = "mysql" THEN "INT" ELSE "INTEGER"],
            [name |-> nm, type_name |-> "TEXT"]>> : nm \in {"a", "b"}}

RowsOver(a, columns) ==
    {row \in [DOMAIN columns ->
                UNION {ValuesOf(a, columns[i].type_name) : i \in DOMAIN columns}] :
        \A i \in DOMAIN columns : row[i] \in ValuesOf(a, columns[i].type_name)}

RowListsOver(a, columns) ==
    UNION {[1..n -> RowsOver(a, columns)] : n \in 0..MaxRows}

\* What the backend answers to a statement: a read gets the result set, a
\* write the count of the rows it changed.
AffectedCounts == {0, 3}

ReadReplies(a, b) ==
    UNION {{[adapter |-> a, class |-> "read", columns |-> cols, rows |-> rs,
             rows_affected |-> 0, build |-> b] : rs \in RowListsOver(a, cols)} :
            cols \in ColumnLists(a)}

WriteReplies(a, b) ==
    {[adapter |-> a, class |-> "write", columns |-> <<>>, rows |-> <<>>,
      rows_affected |-> n, build |-> b] : n \in AffectedCounts}

Replies ==
    UNION {ReadReplies(a, b) \cup WriteReplies(a, b) : a \in Relational, b \in Builds}

\* columns.push(ColumnInfo { name, type_name }) for the columns of rows.first()
ColumnsOf(reply) ==
    IF Len(reply.rows) > 0 THEN reply.columns ELSE <<>>

\* The SqlResult of execute_sql / execute_sqlite_sql.
SqlResultOf(reply) ==
    IF reply.class = "read"
    THEN [columns |-> ColumnsOf(reply),
          rows |-> [i \in DOMAIN reply.rows |->
                        RowToJson(reply.adapter, reply.columns, reply.rows[i], reply.build)],
          affected_rows |-> 0]
    ELSE [columns |-> <<>>, rows |-> <<>>, affected_rows |-> reply.rows_affected]

CommandOf(a) == IF a = "mysql" THEN "execute_sql" ELSE "execute_sqlite_sql"

\* ------------------------------------------------- the result as its own system
InitRows ==
    /\ profiles = [c \in ConnIds |-> NoProfile]
    /\ pools = [c \in ConnIds |-> 0]
    /\ sqlite_pools = [c \in ConnIds |-> 0]
    /\ redis_clients = [k \in ConnIds \X DbIdx |-> 0]
    /\ lock = [a \in Cached |-> 0]
    /\ handles = <<>>
    /\ tasks = [t \in Tasks |-> IdleTask(NoPrev)]
    /\ backend = "none"
    /\ calls = 0
    /\ insertLog = [k \in RegKeys |-> 0]
    /\ sqlText = <<>>
    /\ sqlAdapter = "none"
    /\ sqlClass = "none"
    /\ fun = "none"
    /\ arg \in Replies
    /\ ret = <<>>
    /\ enum = <<>>

\* What no step of result shaping changes.
stateVars == <<profiles, regVars, lock, handles, tasks, backend, calls, insertLog,
               sqlText, sqlAdapter, sqlClass, enum>>

\* execute_sql / execute_sqlite_sql once the statement was sent: the
\* backend's error, or the SqlResult built from its answer.
BuildResult ==
    /\ fun = "none"
    /\ fun' = CommandOf(arg.adapter)
    /\ \/ ret' = Err
       \/ ret' = Ok(SqlResultOf(arg))
    /\ UNCHANGED <<stateVars, arg>>

NextRows == BuildResult

SpecRows == InitRows /\ [][NextRows]_vars

\* ====================================================================== claims
\* C11 as stated: a successful read returns the column metadata of every
\* result column, also when the result has no rows, the normalized rows and
\* the count 0; a successful write returns no columns, no rows and the
\* backend's count.
C11_ResultShape ==
    (fun \in {"execute_sql", "execute_sqlite_sql"} /\ ret.ok) =>
        /\ arg.class = "read" =>
            /\ ret.v.columns = arg.columns
            /\ Len(ret.v.rows) = Len(arg.rows)
            /\ ret.v.affected_rows = 0
        /\ arg.class = "write" =>
            /\ ret.v.columns = <<>>
            /\ ret.v.rows = <<>>
            /\ ret.v.affected_rows = arg.rows_affected

\* The column whose value row_to_json keeps under its name.
Kept(columns, j) ==
    \A l \in DOMAIN columns : columns[l].name = columns[j].name => l <= j

\* The canonical value of column j of row i in a successful read.
CellJson(i, j) == ret.v.rows[i][arg.columns[j].name]

ReadDone == fun \in {"execute_sql", "execute_sqlite_sql"} /\ ret.ok /\ arg.class = "read"

\* C12 as stated, for the relational normalizers: a NULL becomes Null and an
\* integer of any integer column type becomes Number with the same value.
C12_NullAndIntegerKept ==
    ReadDone =>
        \A i \in DOMAIN arg.rows, j \in DOMAIN arg.columns :
            Kept(arg.columns, j) =>
                /\ arg.rows[i][j].k = "null" => CellJson(i, j) = JsonNull
                /\ arg.rows[i][j].k = "int" => CellJson(i, j) = JsonNumber(arg.rows[i][j].n)

\* ===================================================== keyvalue normalization
\* redis::Value: Nil, Int, Data (a bulk string: its bytes read as text, and
\* whether they are UTF-8), Bulk (an array of replies), Status, Okay.
RedisNil == [k |-> "Nil"]
RedisInt(n) == [k |-> "Int", n |-> n]
RedisData(str, utf8) == [k |-> "Data", s |-> str, utf8 |-> utf8]
RedisBulk(items) == [k |-> "Bulk", items |-> items]
RedisStatus(str) == [k |-> "Status", s |-> str]
RedisOkay == [k |-> "Okay"]

\* Mutant: the text decode is skipped.
StringDecodeFails(v) == Err

\* String::from_redis_value(&v)
StringFromRedisValue(v) ==
    CASE v.k = "Data" -> IF v.utf8 THEN Ok(v.s) ELSE Err
      [] v.k = "Okay" -> Ok("OK")
      [] v.k = "Status" -> Ok(v.s)
      [] OTHER -> Err

\* Vec::<redis::Value>::from_redis_value(&v): the elements of an array; a
\* bulk string is wrapped in a vector of one element; Nil is the empty vector.
VecFromRedisValue(v) ==
    CASE v.k = "Bulk" -> Ok(v.items)
      [] v.k = "Data" -> Ok(<<v>>)
      [] v.k = "Nil" -> Ok(<<>>)
      [] OTHER -> Err

\* format!("{:?}", v): the Debug rendering of redis::Value
DebugString(v) ==
    CASE v.k = "Nil" -> "nil"
      [] v.k = "Int" -> "int(" \o ToString(v.n) \o ")"
      [] v.k = "Data" -> IF v.utf8 THEN "string-data('" \o v.s \o "')"
                         ELSE "binary-data(" \o v.s \o ")"
      [] v.k = "Okay" -> "ok"
      [] v.k = "Status" -> "status(" \o v.s \o ")"
      [] OTHER -> "bulk(..)"

\* Mutant: the wrapped single value is taken for an array.
NeverSelfWrapped(items, v) == FALSE

\* items.len() == 1 && items[0] == v
SelfWrapped(items, v) == Len(items) = 1 /\ items[1] = v

\* What stands for a call that was not made: the call depth was used up.
NotReturned == [t |-> "NotReturned"]

\* redis_value_to_json, with the number of nested calls it may still make.
RECURSIVE RedisValueToJson(_, _)
RedisValueToJson(v, depth) ==
    IF depth = 0 THEN NotReturned
    ELSE CASE v.k = "Nil" -> JsonNull
           [] v.k = "Int" -> JsonNumber(v.n)
           [] OTHER ->
                LET str == StringFromRedisValue(v)
                    items == VecFromRedisValue(v) IN
                IF str.ok THEN JsonString(str.v)
                ELSE IF items.ok /\ ~SelfWrapped(items.v, v)
                THEN JsonArray([i \in DOMAIN items.v |->
                                    RedisValueToJson(items.v[i], depth - 1)])
                ELSE JsonString(DebugString(v))

\* The nesting of a reply: 0 for a reply that is not an array.
RECURSIVE Nesting(_)
Nesting(v) ==
    IF v.k # "Bulk" THEN 0
    ELSE LET below == {0} \cup {Nesting(v.items[i]) : i \in DOMAIN v.items}
         IN 1 + (CHOOSE n \in below : \A l \in below : l <= n)

\* The replies the model draws from: every reply that is not an array, the
\* arrays of up to MaxItems of them, and arrays of arrays.
MaxItems == 2
RedisScalars ==
    {RedisNil, RedisOkay, RedisStatus("PONG"), RedisData("abc", TRUE),
     RedisData("\\xff", FALSE)} \cup {RedisInt(n) : n \in IntSamples}
RedisBulksOver(S) == {RedisBulk(items) : items \in UNION {[1..n -> S] : n \in 0..MaxItems}}
RedisNested ==
    RedisBulksOver({RedisInt(1), RedisData("\\xff", FALSE), RedisBulk(<<>>),
                    RedisBulk(<<RedisData("\\xff", FALSE)>>),
                    RedisBulk(<<RedisNil, RedisStatus("PONG")>>)})
RedisValues == RedisScalars \cup RedisBulksOver(RedisScalars) \cup RedisNested

\* -------------------------------------------- normalization as its own system
InitRedisValue ==
    /\ profiles = [c \in ConnIds |-> NoProfile]
    /\ pools = [c \in ConnIds |-> 0]
    /\ sqlite_pools = [c \in ConnIds |-> 0]
    /\ redis_clients = [k \in ConnIds \X DbIdx |-> 0]
    /\ lock = [a \in Cached |-> 0]
    /\ handles = <<>>
    /\ tasks = [t \in Tasks |-> IdleTask(NoPrev)]
    /\ backend = "none"
    /\ calls = 0
    /\ insertLog = [k \in RegKeys |-> 0]
    /\ sqlText = <<>>
    /\ sqlAdapter = "none"
    /\ sqlClass = "none"
    /\ fun = "none"
    /\ arg \in RedisValues
    /\ ret = <<>>
    /\ enum = <<>>

\* let json_result = redis_value_to_json(result)
Normalize ==
    /\ fun = "none"
    /\ fun' = "redis_value_to_json"
    /\ ret' = RedisValueToJson(arg, Nesting(arg) + 1)
    /\ UNCHANGED <<stateVars, arg>>

NextRedisValue == Normalize

SpecRedisValue == InitRedisValue /\ [][NextRedisValue]_vars

\* ====================================================================== claims
\* Every call that was needed was made: the value holds no NotReturned.
RECURSIVE Terminated(_)
Terminated(j) ==
    /\ j # NotReturned
    /\ j.t = "Array" => \A i \in DOMAIN j.items : Terminated(j.items[i])

\* Every Array of the canonical value stands where the reply has an array.
RECURSIVE ArraysAreBulks(_, _)
ArraysAreBulks(v, j) ==
    j.t = "Array" =>
        /\ v.k = "Bulk"
        /\ Len(j.items) = Len(v.items)
        /\ \A i \in DOMAIN j.items : ArraysAreBulks(v.items[i], j.items[i])

\* C13: redis_value_to_json returns for every reply, with no more nested
\* calls than the reply has nested arrays; a reply that is not an array is
\* normalized by the one call, without recursion, and never to an Array; a
\* bulk string that is not UTF-8 becomes the Text of its debug rendering; no
\* Array of the result wraps a value that is not an array in the reply.
C13_SelfWrapGuard ==
    fun = "redis_value_to_json" =>
        /\ Terminated(ret)
        /\ ArraysAreBulks(arg, ret)
        /\ arg.k # "Bulk" =>
            /\ ret.t # "Array"
            /\ RedisValueToJson(arg, 1) = ret
        /\ (arg.k = "Data" /\ ~arg.utf8) => ret = JsonString(DebugString(arg))

\* C13 witness: a bulk string that is not UTF-8 has been normalized to a Text.
C13_Witness ==
    /\ fun = "redis_value_to_json"
    /\ arg.k = "Data"
    /\ ~arg.utf8
    /\ ret.t = "String"

\* The canonical value j is the normalization of the reply v.
RECURSIVE Normalized(_, _)
Normalized(v, j) ==
    CASE v.k = "Nil" -> j = JsonNull
      [] v.k = "Int" -> j = JsonNumber(v.n)
      [] v.k = "Status" -> j = JsonString(v.s)
      [] v.k = "Okay" -> j = JsonString("OK")
      [] v.k = "Data" -> j.t = "String" /\ (v.utf8 => j.s = v.s)
      [] OTHER ->
            /\ j.t = "Array"
            /\ Len(j.items) = Len(v.items)
            /\ \A i \in DOMAIN v.items : Normalized(v.items[i], j.items[i])

\* C14: Nil becomes Null and Int the Number of the same value; a reply that
\* decodes as text (status, OK, UTF-8 bulk string) becomes that Text; an
\* array becomes an Array of the same length whose i-th element is the
\* normalization of the reply's i-th element.
C14_RecursiveNormalization ==
    fun = "redis_value_to_json" => Normalized(arg, ret)

\* C14 witness: an array of an integer and an array of one element has become
\* an Array of that Number and an Array of one element.
C14_Witness ==
    /\ fun = "redis_value_to_json"
    /\ arg.k = "Bulk"
    /\ Len(arg.items) = 2
    /\ arg.items[1].k = "Int"
    /\ arg.items[2].k = "Bulk"
    /\ Len(arg.items[2].items) = 1
    /\ ret.t = "Array"
    /\ ret.items[1] = JsonNumber(arg.items[1].n)
    /\ ret.items[2].t = "Array"
    /\ Len(ret.items[2].items) = 1

\* ============================================================ cache get-value
\* A stored value is a sequence of bytes.  The model's bytes: the letter "a",
\* the byte "ff" that is not UTF-8, and the bytes a zlib stream is made of:
\* the header "x", the codes "A" (of "a") and "F" (of "ff"), and the check
\* bytes "0" and "1".  Every byte but "ff" is a character of a UTF-8 text.
ByteAlphabet == {"a", "ff", "x", "A", "F", "0", "1"}
DataBytes == {"a", "ff"}
IsUtf8(bytes) == \A i \in DOMAIN bytes : bytes[i] # "ff"

\* The check byte at the end of a stream, computed from the data.
Checksum(data) == IF Len(data) % 2 = 0 THEN "0" ELSE "1"
Deflate(b) == IF b = "a" THEN "A" ELSE "F"
Inflate(c) == IF c = "A" THEN "a" ELSE "ff"

\* What a producer stores for compressed data: header, codes, check byte.
Compress(data) ==
    <<"x">> \o [i \in DOMAIN data |-> Deflate(data[i])] \o <<Checksum(data)>>

\* ZlibDecoder::new(bytes).read_to_end(&mut decompressed): Err unless the
\* bytes are a header, codes and the check byte of the decoded data.
ZlibDecode(bytes) ==
    IF /\ Len(bytes) >= 2
       /\ bytes[1] = "x"
       /\ \A i \in 2..(Len(bytes) - 1) : bytes[i] \in {"A", "F"}
       /\ bytes[Len(bytes)] =
            Checksum([i \in 1..(Len(bytes) - 2) |-> Inflate(bytes[i + 1])])
    THEN Ok([i \in 1..(Len(bytes) - 2) |-> Inflate(bytes[i + 1])])
    ELSE Err

\* String::from_utf8_lossy: a byte that is not UTF-8 becomes U+FFFD.
FromUtf8Lossy(bytes) == [i \in DOMAIN bytes |-> IF bytes[i] = "ff" THEN "U+FFFD" ELSE bytes[i]]

\* The length of the header legacy clients put before the stream.
PrefixLen == 4

\* Attempt 1: direct zlib decode
Probe1(bytes) == ZlibDecode(bytes)

\* Mutant: there is no second attempt.
Probe2Never(bytes) == Err

\* Attempt 2: if bytes.len() > 4, zlib decode of &bytes[4..]
Probe2(bytes) ==
    IF Len(bytes) > PrefixLen
    THEN ZlibDecode(SubSeq(bytes, PrefixLen + 1, Len(bytes)))
    ELSE Err

\* .is_ok() && !decompressed.is_empty()
Usable(d) == d.ok /\ d.v # <<>>

\* get_memcached_value on Some(bytes)
ValueText(bytes) ==
    IF Usable(Probe1(bytes)) THEN FromUtf8Lossy(Probe1(bytes).v)
    ELSE IF Usable(Probe2(bytes)) THEN FromUtf8Lossy(Probe2(bytes).v)
    ELSE FromUtf8Lossy(bytes)

\* "(nil)"
NilText == <<"(", "n", "i", "l", ")">>

\* value.unwrap_or_else(|| "(nil)".to_string())
GetValueResult(found, bytes) == IF found THEN ValueText(bytes) ELSE NilText

\* The stored values the model draws from: every byte sequence up to
\* MaxBytes, the streams of the data up to two bytes, the same behind a
\* four-byte header, and texts longer than the header.
MaxBytes == 3
BytesUpTo(n) == UNION {[1..l -> ByteAlphabet] : l \in 0..n}
DataSamples == UNION {[1..l -> DataBytes] : l \in 0..2}
LegacyHeaders == {<<"0", "0", "0", "1">>, <<"a", "a", "a", "a">>}
StoredValues ==
    BytesUpTo(MaxBytes)
    \cup {Compress(d) : d \in DataSamples}
    \cup {h \o Compress(d) : h \in LegacyHeaders, d \in DataSamples}
    \cup {<<"a", "a", "a", "a", "a">>, <<"x", "a", "a", "a", "x", "A", "1">>,
          <<"a", "ff", "a", "a", "a", "a">>}

CacheReplies ==
    {[found |-> TRUE, bytes |-> b] : b \in StoredValues}
    \cup {[found |-> FALSE, bytes |-> <<>>]}

\* --------------------------------------------- cache get-value as its own system
InitValue ==
    /\ profiles = [c \in ConnIds |-> NoProfile]
    /\ pools = [c \in ConnIds |-> 0]
    /\ sqlite_pools = [c \in ConnIds |-> 0]
    /\ redis_clients = [k \in ConnIds \X DbIdx |-> 0]
    /\ lock = [a \in Cached |-> 0]
    /\ handles = <<>>
    /\ tasks = [t \in Tasks |-> IdleTask(NoPrev)]
    /\ backend = "none"
    /\ calls = 0
    /\ insertLog = [k \in RegKeys |-> 0]
    /\ sqlText = <<>>
    /\ sqlAdapter = "none"
    /\ sqlClass = "none"
    /\ fun = "none"
    /\ arg \in CacheReplies
    /\ ret = <<>>
    /\ enum = <<>>

\* get_memcached_value once client.get(&key) has answered
GetValue ==
    /\ fun = "none"
    /\ fun' = "get_memcached_value"
    /\ ret' = Ok(GetValueResult(arg.found, arg.bytes))
    /\ UNCHANGED <<stateVars, arg>>

NextValue == GetValue

SpecValue == InitValue /\ [][NextValue]_vars

\* ====================================================================== claims
\* The bytes after the four-byte header (none when there are not more than four).
AfterHeader(bytes) ==
    IF Len(bytes) > 4 THEN SubSeq(bytes, 5, Len(bytes)) ELSE <<>>

\* The bytes are the stream of some non-empty data.
StreamOfData(bytes) == \E l \in 1..Len(bytes) : \E d \in [1..l -> DataBytes] : bytes = Compress(d)

\* The probe, in order: the data of the stream the bytes are; else the data of
\* the stream behind a four-byte header; else the bytes.
ProbeInOrder ==
    \/ /\ StreamOfData(arg.bytes)
       /\ \E l \in 1..Len(arg.bytes) : \E d \in [1..l -> DataBytes] :
            arg.bytes = Compress(d) /\ ret.v = FromUtf8Lossy(d)
    \/ /\ ~StreamOfData(arg.bytes)
       /\ StreamOfData(AfterHeader(arg.bytes))
       /\ \E l \in 1..Len(arg.bytes) : \E d \in [1..l -> DataBytes] :
            AfterHeader(arg.bytes) = Compress(d) /\ ret.v = FromUtf8Lossy(d)
    \/ /\ ~StreamOfData(arg.bytes)
       /\ ~StreamOfData(AfterHeader(arg.bytes))
       /\ ret.v = FromUtf8Lossy(arg.bytes)

\* C15 as stated: the probe in order; hence the stream of a UTF-8 text gives
\* the text, plain UTF-8 bytes are returned unchanged, and an absent key gives
\* "(nil)" as a success.
C15_ProbeAndExamples ==
    fun = "get_memcached_value" =>
        /\ ret.ok
        /\ ~arg.found => ret.v = NilText
        /\ arg.found =>
            /\ ProbeInOrder
            /\ \A d \in DataSamples :
                (IsUtf8(d) /\ arg.bytes = Compress(d)) => ret.v = d
            /\ IsUtf8(arg.bytes) => ret.v = arg.bytes

\* C15 amended: the probe in order; the stream of a non-empty UTF-8 text gives
\* the text; UTF-8 bytes that are a stream neither as they are nor behind a
\* four-byte header are returned unchanged; an absent key gives "(nil)" as a
\* success.  The stream of the empty text gives the bytes of the stream.
C15_ProbeNonEmpty ==
    fun = "get_memcached_value" =>
        /\ ret.ok
        /\ ~arg.found => ret.v = NilText
        /\ arg.found =>
            /\ ProbeInOrder
            /\ \A d \in DataSamples :
                (IsUtf8(d) /\ d # <<>> /\ arg.bytes = Compress(d)) => ret.v = d
            /\ arg.bytes = Compress(<<>>) => ret.v = arg.bytes
            /\ (/\ IsUtf8(arg.bytes)
                /\ ~StreamOfData(arg.bytes)
                /\ ~StreamOfData(AfterHeader(arg.bytes))) => ret.v = arg.bytes

\* C15 witness: a stream behind a four-byte header has been decoded.
C15_Witness ==
    /\ fun = "get_memcached_value"
    /\ arg.found
    /\ Len(arg.bytes) > 4
    /\ ~Probe1(arg.bytes).ok
    /\ arg.bytes = <<"0", "0", "0", "1">> \o Compress(<<"a", "a">>)
    /\ ret.v = <<"a", "a">>

\* ============================================================ key enumeration
\* A line of the server: "STAT items:<slab>:..." (slab as the text between the
\* colons), "ITEM <key> ...", "END", or any other line.
StatItemsLine(slab) == [t |-> "STAT items", slab |-> slab]
ItemLine(key) == [t |-> "ITEM", key |-> key]
OtherLine == [t |-> "OTHER"]

\* A response as the reader meets it: the lines before its end, and how it
\* ends: the "END" line, the end of the stream (read_line gives 0), or an
\* I/O error of read_line.
Response(lines, end) == [lines |-> lines, end |-> end]
Ends == {"END", "EOF", "ERR"}

SlabIds == {1, 2}

\* parts[1].parse::<u32>(): the number, or -1 for Err.
ParseSlab(str) ==
    IF \E n \in SlabIds : ToString(n) = str
    THEN CHOOSE n \in SlabIds : ToString(n) = str
    ELSE 0 - 1

Contains(seq, x) == \E i \in DOMAIN seq : seq[i] = x

\* Mutant: the slab is pushed even if it is in the list.
PushSlabAlways(slabs, slab_id) == Append(slabs, slab_id)

\* if !slabs.contains(&slab_id) { slabs.push(slab_id) }
PushSlab(slabs, slab_id) ==
    IF Contains(slabs, slab_id) THEN slabs ELSE Append(slabs, slab_id)

\* The first loop of list_keys_via_tcp over the lines read: a line that is
\* not "STAT items:" or whose slab id does not parse is passed over.
RECURSIVE SlabsOf(_, _)
SlabsOf(lines, slabs) ==
    IF lines = <<>> THEN slabs
    ELSE LET line == Head(lines) IN
         SlabsOf(Tail(lines),
                 IF line.t = "STAT items" /\ ParseSlab(line.slab) >= 0
                 THEN PushSlab(slabs, ParseSlab(line.slab))
                 ELSE slabs)

\* The second loop's body over the lines of one response: parts[1] of every
\* "ITEM " line is pushed.
RECURSIVE ItemKeys(_)
ItemKeys(lines) ==
    IF lines = <<>> THEN <<>>
    ELSE (IF Head(lines).t = "ITEM" THEN <<Head(lines).key>> ELSE <<>>)
         \o ItemKeys(Tail(lines))

\* for slab_id in slabs: the request is written and the response read to its
\* end.  closed: the server has ended the stream, so a read gives 0 and a
\* write fails or not (write_fails) as the system decides.
RECURSIVE DumpSlabs(_, _, _, _, _)
DumpSlabs(slabs, dumps, keys, closed, write_fails) ==
    IF slabs = <<>> THEN Ok(keys)
    ELSE IF closed
    THEN IF write_fails THEN Err
         ELSE DumpSlabs(Tail(slabs), dumps, keys, TRUE, write_fails)
    ELSE LET resp == dumps[Head(slabs)] IN
         IF resp.end = "ERR" THEN Err
         ELSE DumpSlabs(Tail(slabs), dumps, keys \o ItemKeys(resp.lines),
                        resp.end = "EOF", write_fails)

\* list_keys_via_tcp once the stream is connected
ListKeysViaTcp(server) ==
    IF server.stats.end = "ERR" THEN Err
    ELSE DumpSlabs(SlabsOf(server.stats.lines, <<>>), server.dumps, <<>>,
                   server.stats.end = "EOF", server.write_fails)

\* str::to_lowercase
ToLowercase(str) == [i \in DOMAIN str |-> ToLowerChar(str[i])]

\* str::contains
ContainsStr(str, pat) ==
    \E off \in 0..(Len(str) - Len(pat)) : SubSeq(str, off + 1, off + Len(pat)) = pat

\* filter_str.is_empty() || k.to_lowercase().contains(&filter_str)
KeyMatches(k, filter_str) ==
    filter_str = <<>> \/ ContainsStr(ToLowercase(k), filter_str)

MemcachedKey(k) == [key |-> k, size |-> 0, expiration |-> 0]

RECURSIVE FilterKeys(_, _)
FilterKeys(raw_keys, filter_str) ==
    IF raw_keys = <<>> THEN <<>>
    ELSE (IF KeyMatches(Head(raw_keys), filter_str)
          THEN <<MemcachedKey(Head(raw_keys))>> ELSE <<>>)
         \o FilterKeys(Tail(raw_keys), filter_str)

\* filter: Option<String>
NoFilter == [some |-> FALSE]
SomeFilter(str) == [some |-> TRUE, v |-> str]

\* get_memcached_keys after the connectivity check
GetKeysResult(server, filter) ==
    LET raw_keys == ListKeysViaTcp(server)
        filter_str == IF filter.some THEN ToLowercase(filter.v) ELSE <<>> IN
    IF raw_keys.ok THEN Ok(FilterKeys(raw_keys.v, filter_str)) ELSE Err

\* The servers the model draws from.  Slab 1 holds keys among alpha and beta,
\* slab 2 among gamma and Ga; a cachedump response has up to MaxLines lines.
MaxLines == 2
alpha == <<"a", "l", "p", "h", "a">>
beta == <<"b", "e", "t", "a">>
gamma == <<"g", "a", "m", "m", "a">>
MixedGa == <<"G", "a">>
KeysOfSlab(slab) == IF slab = 1 THEN {alpha, beta} ELSE {gamma, MixedGa}
StatLineLists ==
    {<<>>,
     <<StatItemsLine("1")>>,
     <<StatItemsLine("1"), StatItemsLine("1")>>,
     <<StatItemsLine("1"), StatItemsLine("2")>>,
     <<StatItemsLine("2"), StatItemsLine("1"), StatItemsLine("2")>>,
     <<StatItemsLine("1"), StatItemsLine("x"), StatItemsLine("2")>>,
     <<OtherLine, StatItemsLine("2")>>,
     <<StatItemsLine("x")>>}
DumpLineLists(slab) ==
    UNION {[1..l -> {ItemLine(k) : k \in KeysOfSlab(slab)}] : l \in 0..MaxLines}
Responses(lists) == {Response(lines, end) : lines \in lists, end \in Ends}
Servers ==
    {[stats |-> st, dumps |-> <<d1, d2>>, write_fails |-> wf] :
        st \in Responses(StatLineLists),
        d1 \in Responses(DumpLineLists(1)),
        d2 \in Responses(DumpLineLists(2)),
        wf \in BOOLEAN}
Filters == {NoFilter} \cup {SomeFilter(str) : str \in {<<>>, <<"g", "a">>, <<"G", "A">>, <<"a">>}}

InitKeys ==
    /\ profiles = [c \in ConnIds |-> NoProfile]
    /\ pools = [c \in ConnIds |-> 0]
    /\ sqlite_pools = [c \in ConnIds |-> 0]
    /\ redis_clients = [k \in ConnIds \X DbIdx |-> 0]
    /\ lock = [a \in Cached |-> 0]
    /\ handles = <<>>
    /\ tasks = [t \in Tasks |-> IdleTask(NoPrev)]
    /\ backend = "none"
    /\ calls = 0
    /\ insertLog = [k \in RegKeys |-> 0]
    /\ sqlText = <<>>
    /\ sqlAdapter = "none"
    /\ sqlClass = "none"
    /\ fun = "none"
    /\ arg \in {[server |-> sv, filter |-> f] : sv \in Servers, f \in Filters}
    /\ ret = <<>>
    /\ enum = <<>>

GetKeys ==
    /\ fun = "none"
    /\ fun' = "get_memcached_keys"
    /\ ret' = GetKeysResult(arg.server, arg.filter)
    /\ UNCHANGED <<stateVars, arg>>

NextKeys == GetKeys

SpecKeys == InitKeys /\ [][NextKeys]_vars

\* ====================================================================== claims
\* The slabs a "STAT items:<slab>:..." line of the response names.
NamedSlabs(server) ==
    {n \in SlabIds : \E i \in DOMAIN server.stats.lines :
        /\ server.stats.lines[i].t = "STAT items"
        /\ server.stats.lines[i].slab = ToString(n)}

\* Every response the enumeration reads ends with its terminator.
WellFormed(server) ==
    /\ server.stats.end = "END"
    /\ \A n \in NamedSlabs(server) : server.dumps[n].end = "END"

\* k contains the filter as a substring when letter case is ignored.
ContainsIgnoringCase(k, f) ==
    \/ ~f.some
    \/ \E off \in 0..(Len(k) - Len(f.v)) :
          \A i \in 1..Len(f.v) : ToLowerChar(k[off + i]) = ToLowerChar(f.v[i])

\* The ITEM lines of the named slabs whose key passes the filter.
Hits(server, f) ==
    {<<n, i>> \in SlabIds \X (1..(MaxLines + 1)) :
        /\ n \in NamedSlabs(server)
        /\ i \in DOMAIN server.dumps[n].lines
        /\ server.dumps[n].lines[i].t = "ITEM"
        /\ ContainsIgnoringCase(server.dumps[n].lines[i].key, f)}

ExampleServer ==
    [stats |-> Response(<<StatItemsLine("1"), StatItemsLine("2")>>, "END"),
     dumps |-> <<Response(<<ItemLine(alpha), ItemLine(beta)>>, "END"),
                 Response(<<ItemLine(gamma)>>, "END")>>,
     write_fails |-> FALSE]

\* C16: on a transcript where every response ends with its terminator, the key
\* listing returns exactly the keys of the ITEM lines of all slabs the
\* "STAT items" lines name, one entry per ITEM line, kept when the key
\* contains the filter ignoring case; so slabs 1 (alpha, beta) and 2 (gamma)
\* give alpha, beta, gamma, and with the filter "ga" give gamma alone.
C16_KeysOfNamedSlabs ==
    (fun = "get_memcached_keys" /\ WellFormed(arg.server)) =>
        /\ ret.ok
        /\ {ret.v[i] : i \in DOMAIN ret.v}
             = {MemcachedKey(arg.server.dumps[h[1]].lines[h[2]].key) :
                    h \in Hits(arg.server, arg.filter)}
        /\ Len(ret.v) = Cardinality(Hits(arg.server, arg.filter))
        /\ (arg.server = ExampleServer /\ arg.filter = NoFilter) =>
               ret.v = <<MemcachedKey(alpha), MemcachedKey(beta), MemcachedKey(gamma)>>
        /\ (arg.server = ExampleServer /\ arg.filter = SomeFilter(<<"g", "a">>)) =>
               ret.v = <<MemcachedKey(gamma)>>

C16_Witness ==
    /\ fun = "get_memcached_keys"
    /\ arg.server = ExampleServer
    /\ arg.filter = SomeFilter(<<"g", "a">>)
    /\ ret = Ok(<<MemcachedKey(gamma)>>)

\* A "STAT items" line whose slab id is not a number.
UnparsableSlab(server) ==
    \E i \in DOMAIN server.stats.lines :
        /\ server.stats.lines[i].t = "STAT items"
        /\ \A n \in SlabIds : server.stats.lines[i].slab # ToString(n)

\* C17: a stream that fails or ends before the terminator of a response the
\* enumeration reads, or a slab id that does not parse, makes the listing
\* return an error and no keys.
C17_FailureAborts ==
    (/\ fun = "get_memcached_keys"
     /\ \/ ~WellFormed(arg.server)
        \/ UnparsableSlab(arg.server)) => ~ret.ok

\* C18: on a miss, a profile of the right kind that lacks its host never makes
\* resolve fail before a connect attempt: a call that read such a profile and
\* ended in an error has attempted to connect.
C18_DefaultsBeforeConnect ==
    \A t \in Tasks :
        LET r == tasks[t] IN
        (/\ r.pc = "done"
         /\ r.err # ""
         /\ r.hit = 0
         /\ r.fetched
         /\ KindOk(AdapterOf(r.op), r.prof)
         /\ ~r.prof.host) => r.attempts > 0

\* The same for the adapters other than the keyvalue one.
C18_RelationalAndCacheDefaults ==
    \A t \in Tasks :
        LET r == tasks[t] IN
        (/\ r.pc = "done"
         /\ r.err # ""
         /\ r.hit = 0
         /\ r.fetched
         /\ AdapterOf(r.op) # "redis"
         /\ KindOk(AdapterOf(r.op), r.prof)
         /\ ~r.prof.host) => r.attempts > 0

\* C19: the keyvalue callers of one key share one backend session: an
\* operation that found the handle of its key cached opens no session.
C19_OneSharedSession ==
    \A t \in Tasks :
        LET r == tasks[t] IN
        (AdapterOf(r.op) = "redis" /\ r.hit # 0) => r.attempts = 0

\* The natural text form of a date/time value.
NaturalText(value) ==
    CASE value.k = "date" -> NaiveDateToString(value.d)
      [] value.k = "time" -> NaiveTimeToString(value.tm)
      [] value.k = "datetime" -> NaiveDateTimeToString(value.d, value.tm)
      [] OTHER -> value.s

\* C20: in both relational normalizers a date/time value becomes the String of
\* its natural text form and a blob value becomes the String of the fixed
\* placeholder.
C20_DateTimeTextBlobPlaceholder ==
    ReadDone =>
        \A i \in DOMAIN arg.rows, j \in DOMAIN arg.columns :
            Kept(arg.columns, j) =>
                /\ arg.rows[i][j].k \in {"date", "time", "datetime"} =>
                       CellJson(i, j) = JsonString(NaturalText(arg.rows[i][j]))
                /\ arg.rows[i][j].k = "blob" =>
                       CellJson(i, j) = JsonString(BlobPlaceholder)

\* The same with the blob part for the embedded relational normalizer alone.
C20_DateTimeTextSqliteBlob ==
    ReadDone =>
        \A i \in DOMAIN arg.rows, j \in DOMAIN arg.columns :
            Kept(arg.columns, j) =>
                /\ arg.rows[i][j].k \in {"date", "time", "datetime"} =>
                       CellJson(i, j) = JsonString(NaturalText(arg.rows[i][j]))
                /\ (arg.rows[i][j].k = "blob" /\ fun = "execute_sqlite_sql") =>
                       CellJson(i, j) = JsonString(BlobPlaceholder)

\* ================================================================ key details
\* What a command gives its caller: Ok(v), Err, or nothing because the task
\* of the command panicked.
Panic == [ok |-> FALSE, panic |-> TRUE]

\* One command of a pipeline.
PipeCmd(name, key) == [cmd |-> name, key |-> key]

\* pipe.cmd("TYPE").arg(key); pipe.cmd("TTL").arg(key);
\* pipe.cmd("MEMORY").arg("USAGE").arg(key), for every key in order
RECURSIVE PipelineFor(_)
PipelineFor(keys) ==
    IF keys = <<>> THEN <<>>
    ELSE <<PipeCmd("TYPE", Head(keys)), PipeCmd("TTL", Head(keys)),
           PipeCmd("MEMORY USAGE", Head(keys))>> \o PipelineFor(Tail(keys))

\* i64::from_redis_value(&v): an integer, or a text that is a number
I64FromRedisValue(v) ==
    CASE v.k = "Int" -> Ok(v.n)
      [] v.k \in {"Data", "Status"} ->
            IF \E n \in IntSamples : ToString(n) = v.s
            THEN Ok(CHOOSE n \in IntSamples : ToString(n) = v.s)
            ELSE Err
      [] OTHER -> Err

\* Option<i64>
NoneI64 == [some |-> FALSE]
SomeI64(n) == [some |-> TRUE, v |-> n]

\* Option::<i64>::from_redis_value(&v): None for Nil, else the i64 decode
OptionI64FromRedisValue(v) ==
    IF v.k = "Nil" THEN Ok(NoneI64)
    ELSE IF I64FromRedisValue(v).ok THEN Ok(SomeI64(I64FromRedisValue(v).v))
    ELSE Err

KeyDetail(key, type, ttl, length) ==
    [key |-> key, type |-> type, ttl |-> ttl, length |-> length]

\* Mutant: unwrap_or(0)
TtlOrZero(r) == IF r.ok THEN r.v ELSE 0

\* .unwrap_or_else(|_| "unknown".to_string()), .unwrap_or(-1), .ok().flatten()
TypeOrUnknown(r) == IF r.ok THEN r.v ELSE "unknown"
TtlOrMinusOne(r) == IF r.ok THEN r.v ELSE 0 - 1
LengthOrNone(r) == IF r.ok THEN r.v ELSE NoneI64

\* results[n] of a slice, n counted from 0: in range or not
InRange(results, n) == n < Len(results)

\* parse_key_details_from_pipeline: the detail of the key at index i (from 0)
\* is read from results[3i], results[3i + 1], results[3i + 2]; an index out
\* of range panics.
ParseKeyDetailsFromPipeline(keys, results) ==
    IF \E i \in 0..(Len(keys) - 1) : ~InRange(results, i * 3 + 2)
    THEN Panic
    ELSE Ok([j \in 1..Len(keys) |->
                LET i == j - 1 IN
                KeyDetail(keys[j],
                          TypeOrUnknown(StringFromRedisValue(results[i * 3 + 1])),
                          TtlOrMinusOne(I64FromRedisValue(results[i * 3 + 2])),
                          LengthOrNone(OptionI64FromRedisValue(results[i * 3 + 3])))])

\* How far the backend lets a command get: the profile store is not managed
\* (init_db failed at startup), resolve or the session fails, the SCAN fails,
\* the pipeline fails, or every request is answered.
Stages == {"unmanaged", "no_session", "scan_failed", "pipeline_failed", "answered"}

\* What a command did and gave: trips are the requests sent, one entry per
\* round trip.
Outcome(out, trips) == [out |-> out, trips |-> trips]

ScanCmd == <<PipeCmd("SCAN", "cursor")>>
NextCursor == "next"
ScanResult(cursor, keys) == [cursor |-> cursor, keys |-> keys]

\* get_redis_keys; key_strings is the page the SCAN returns
GetRedisKeys(stage, key_strings, results) ==
    IF stage \in {"unmanaged", "no_session"} THEN Outcome(Err, <<>>)
    ELSE IF stage = "scan_failed" THEN Outcome(Err, <<ScanCmd>>)
    ELSE IF key_strings = <<>> THEN Outcome(Ok(ScanResult(NextCursor, <<>>)), <<ScanCmd>>)
    ELSE IF stage = "pipeline_failed"
    THEN Outcome(Err, <<ScanCmd, PipelineFor(key_strings)>>)
    ELSE LET details == ParseKeyDetailsFromPipeline(key_strings, results) IN
         Outcome(IF details.ok THEN Ok(ScanResult(NextCursor, details.v)) ELSE details,
                 <<ScanCmd, PipelineFor(key_strings)>>)

\* get_keys_details
GetKeysDetails(stage, keys, results) ==
    IF stage = "unmanaged" THEN Outcome(Err, <<>>)
    ELSE IF keys = <<>> THEN Outcome(Ok(<<>>), <<>>)
    ELSE IF stage = "no_session" THEN Outcome(Err, <<>>)
    ELSE IF stage = "pipeline_failed" THEN Outcome(Err, <<PipelineFor(keys)>>)
    ELSE Outcome(ParseKeyDetailsFromPipeline(keys, results), <<PipelineFor(keys)>>)

\* The inputs: pages of up to MaxKeys keys, and replies of every length up to
\* one more than the pipeline of the page has commands.
MaxKeys == 2
KeyNames == <<"k1", "k2", "k3", "k4">>
KeyLists == {SubSeq(KeyNames, 1, n) : n \in 0..MaxKeys}
ReplyValues == {RedisStatus("string"), RedisInt(5), RedisNil}
ReplyLists(n) == UNION {[1..l -> ReplyValues] : l \in 0..n}
DetailCalls ==
    {a \in [op : {"get_redis_keys", "get_keys_details"}, stage : Stages,
            keys : KeyLists, results : ReplyLists(3 * MaxKeys + 1)] :
        /\ a.stage # "answered" => a.results = <<>>
        /\ Len(a.results) <= 3 * Len(a.keys) + 1}

InitDetails ==
    /\ profiles = [c \in ConnIds |-> NoProfile]
    /\ pools = [c \in ConnIds |-> 0]
    /\ sqlite_pools = [c \in ConnIds |-> 0]
    /\ redis_clients = [k \in ConnIds \X DbIdx |-> 0]
    /\ lock = [a \in Cached |-> 0]
    /\ handles = <<>>
    /\ tasks = [t \in Tasks |-> IdleTask(NoPrev)]
    /\ backend = "none"
    /\ calls = 0
    /\ insertLog = [k \in RegKeys |-> 0]
    /\ sqlText = <<>>
    /\ sqlAdapter = "none"
    /\ sqlClass = "none"
    /\ fun = "none"
    /\ arg \in DetailCalls
    /\ ret = <<>>
    /\ enum = <<>>

KeysPage ==
    /\ fun = "none"
    /\ arg.op = "get_redis_keys"
    /\ fun' = "get_redis_keys"
    /\ ret' = GetRedisKeys(arg.stage, arg.keys, arg.results)
    /\ UNCHANGED <<stateVars, arg>>

KeysDetails ==
    /\ fun = "none"
    /\ arg.op = "get_keys_details"
    /\ fun' = "get_keys_details"
    /\ ret' = GetKeysDetails(arg.stage, arg.keys, arg.results)
    /\ UNCHANGED <<stateVars, arg>>

NextDetails == KeysPage \/ KeysDetails

SpecDetails == InitDetails /\ [][NextDetails]_vars

C21_NoPanicOnFullReply ==
    (/\ fun \in {"get_redis_keys", "get_keys_details"}
     /\ Len(arg.results) >= 3 * Len(arg.keys)) => ret.out # Panic

\* ===================================================== key enumeration, by step
\* The requests list_keys_via_tcp writes.
PageSize == 100
StatsItemsRequest == [cmd |-> "stats items"]
CachedumpRequest(slab_id, limit) == [cmd |-> "stats cachedump", slab |-> slab_id, limit |-> limit]

\* The locals of list_keys_via_tcp once the stream is connected, with the
\* history the claims speak of: sent are the requests written, ended counts
\* the responses whose terminator was read, closed says the stream has ended,
\* dumped holds per cachedump request the keys read for its slab.
EnumStart ==
    [pc |-> "start", sent |-> <<>>, ended |-> 0, closed |-> FALSE, slabs |-> <<>>,
     todo |-> <<>>, slab |-> 0, pos |-> 0, keys |-> <<>>, dumped |-> <<>>,
     result |-> <<>>]

\* The servers of the runs by step.
EnumServers ==
    {[stats |-> st, dumps |-> <<d1, d2>>, write_fails |-> wf] :
        st \in Responses(StatLineLists),
        d1 \in Responses(DumpLineLists(1)),
        d2 \in Responses(UNION {[1..l -> {ItemLine(gamma)}] : l \in 0..MaxLines}),
        wf \in BOOLEAN}

InitEnum ==
    /\ profiles = [c \in ConnIds |-> NoProfile]
    /\ pools = [c \in ConnIds |-> 0]
    /\ sqlite_pools = [c \in ConnIds |-> 0]
    /\ redis_clients = [k \in ConnIds \X DbIdx |-> 0]
    /\ lock = [a \in Cached |-> 0]
    /\ handles = <<>>
    /\ tasks = [t \in Tasks |-> IdleTask(NoPrev)]
    /\ backend = "none"
    /\ calls = 0
    /\ insertLog = [k \in RegKeys |-> 0]
    /\ sqlText = <<>>
    /\ sqlAdapter = "none"
    /\ sqlClass = "none"
    /\ fun = "list_keys_via_tcp"
    /\ arg \in {[server |-> sv] : sv \in EnumServers}
    /\ ret = <<>>
    /\ enum = EnumStart

\* writer.write_all(b"stats items\r\n")
WriteStatsItems ==
    /\ enum.pc = "start"
    /\ enum' = [enum EXCEPT !.pc = "stats", !.sent = Append(@, StatsItemsRequest),
                            !.pos = 0]
    /\ UNCHANGED <<profiles, regVars, lock, handles, tasks, backend, calls, insertLog,
                   sqlText, sqlAdapter, sqlClass, fun, arg, ret>>

\* One turn of the first loop: read_line, then the line is looked at.
ReadStatsLine ==
    LET resp == arg.server.stats IN
    /\ enum.pc = "stats"
    /\ enum' =
         IF enum.pos < Len(resp.lines)
         THEN LET line == resp.lines[enum.pos + 1] IN
              [enum EXCEPT !.pos = @ + 1,
                           !.slabs = IF line.t = "STAT items" /\ ParseSlab(line.slab) >= 0
                                     THEN PushSlab(@, ParseSlab(line.slab)) ELSE @]
         ELSE CASE resp.end = "END" ->
                     [enum EXCEPT !.pc = "next", !.ended = @ + 1, !.todo = enum.slabs]
                [] resp.end = "EOF" ->
                     [enum EXCEPT !.pc = "next", !.closed = TRUE, !.todo = enum.slabs]
                [] OTHER -> [enum EXCEPT !.pc = "done", !.result = Err]
    /\ UNCHANGED <<profiles, regVars, lock, handles, tasks, backend, calls, insertLog,
                   sqlText, sqlAdapter, sqlClass, fun, arg, ret>>

\* for slab_id in slabs: the next cachedump request is written, or the loop
\* is over and Ok(keys) returned.
WriteCachedump ==
    /\ enum.pc = "next"
    /\ enum' =
         IF enum.todo = <<>>
         THEN [enum EXCEPT !.pc = "done", !.result = Ok(enum.keys)]
         ELSE IF enum.closed /\ arg.server.write_fails
         THEN [enum EXCEPT !.pc = "done", !.result = Err]
         ELSE [enum EXCEPT !.pc = "dump", !.slab = Head(enum.todo),
                           !.todo = Tail(enum.todo), !.pos = 0,
                           !.sent = Append(@, CachedumpRequest(Head(enum.todo), PageSize)),
                           !.dumped = Append(@, <<>>)]
    /\ UNCHANGED <<profiles, regVars, lock, handles, tasks, backend, calls, insertLog,
                   sqlText, sqlAdapter, sqlClass, fun, arg, ret>>

\* One turn of the second loop: read_line, then the line is looked at.  On a
\* stream that has ended read_line gives 0 at once.
ReadDumpLine ==
    LET resp == arg.server.dumps[enum.slab] IN
    /\ enum.pc = "dump"
    /\ enum' =
         IF enum.closed THEN [enum EXCEPT !.pc = "next"]
         ELSE IF enum.pos < Len(resp.lines)
         THEN LET line == resp.lines[enum.pos + 1]
                  found == IF line.t = "ITEM" THEN <<line.key>> ELSE <<>> IN
              [enum EXCEPT !.pos = @ + 1, !.keys = @ \o found,
                           !.dumped[Len(enum.dumped)] = @ \o found]
         ELSE CASE resp.end = "END" -> [enum EXCEPT !.pc = "next", !.ended = @ + 1]
                [] resp.end = "EOF" -> [enum EXCEPT !.pc = "next", !.closed = TRUE]
                [] OTHER -> [enum EXCEPT !.pc = "done", !.result = Err]
    /\ UNCHANGED <<profiles, regVars, lock, handles, tasks, backend, calls, insertLog,
                   sqlText, sqlAdapter, sqlClass, fun, arg, ret>>

NextEnum == WriteStatsItems \/ ReadStatsLine \/ WriteCachedump \/ ReadDumpLine

SpecEnum == InitEnum /\ [][NextEnum]_vars

\* The function runs on: no step of it waits for anything but the server,
\* which answers or closes the stream.
SpecEnumFair == SpecEnum /\ WF_vars(NextEnum)

\* ====================================================================== claims
\* Line i of the stats response names slab n: "STAT items:<n>:...".
NamesSlab(lines, i, n) == lines[i].t = "STAT items" /\ lines[i].slab = ToString(n)

\* The place of the first line that names slab n.
FirstNamed(lines, n) ==
    CHOOSE i \in DOMAIN lines :
        NamesSlab(lines, i, n) /\ \A j \in 1..(i - 1) : ~NamesSlab(lines, j, n)

\* slabs holds the slabs the lines name, each once, in order of first
\* appearance.
SlabsInOrder(slabs, lines) ==
    /\ {slabs[i] : i \in DOMAIN slabs}
         = {n \in SlabIds : \E i \in DOMAIN lines : NamesSlab(lines, i, n)}
    /\ \A i, j \in DOMAIN slabs :
         i < j => FirstNamed(lines, slabs[i]) < FirstNamed(lines, slabs[j])

\* The stats-items request is the first one sent, and every other request is a
\* cachedump of page size 100, the i-th of them for the i-th slab collected.
RequestOrder ==
    /\ enum.sent # <<>> => enum.sent[1] = StatsItemsRequest
    /\ \A i \in DOMAIN enum.sent :
         i > 1 => enum.sent[i] = CachedumpRequest(enum.slabs[i - 1], 100)
    /\ (enum.pc = "done" /\ enum.result.ok) => Len(enum.sent) = 1 + Len(enum.slabs)

\* Once the stats response was read the slabs are the distinct named ones.
SlabsCollected ==
    (enum.pc \in {"next", "dump"} \/ (enum.pc = "done" /\ enum.result.ok)) =>
        SlabsInOrder(enum.slabs, arg.server.stats.lines)

\* Every request but the last one sent has had its terminator read.
OneOutstanding == Len(enum.sent) <= enum.ended + 1

\* The keys of a slab whose response is over are the ITEM lines before its
\* terminator.
KeysAttributed ==
    \A i \in DOMAIN enum.dumped :
        (i < Len(enum.dumped) \/ enum.pc \in {"next", "done"}) =>
            /\ arg.server.dumps[enum.slabs[i]].end = "END"
            /\ enum.dumped[i] = ItemKeys(arg.server.dumps[enum.slabs[i]].lines)

\* C22: the stats-items request goes first; the slabs are the distinct named
\* ones in order of first appearance; one cachedump request of page size 100
\* is sent per slab, the next only after the terminator of the previous
\* response was read, so at most one request is outstanding; the keys of a
\* slab are the ITEM lines read before its terminator.
C22_StrictRequestResponse ==
    /\ RequestOrder
    /\ SlabsCollected
    /\ OneOutstanding
    /\ (enum.pc # "done" \/ enum.result.ok) => KeysAttributed

\* The same while the server has not ended the stream.
C22_StrictWhileStreamOpen ==
    ~enum.closed =>
        /\ RequestOrder
        /\ SlabsCollected
        /\ OneOutstanding
        /\ (enum.pc # "done" \/ enum.result.ok) => KeysAttributed

\* The details a command returned: the list itself, or the keys of the page.
DetailsOf(out) == IF fun = "get_redis_keys" THEN out.v.keys ELSE out.v

\* What a detail shows for a reply, by the kind of the reply.
TypeShown(v, type) ==
    CASE v.k = "Status" -> type = v.s
      [] v.k = "Nil" -> type = "unknown"
      [] OTHER -> type \in {"unknown", ToString(v.n)}

TtlShown(v, ttl) ==
    CASE v.k = "Int" -> ttl = v.n
      [] OTHER -> ttl = 0 - 1

LengthShown(v, length) ==
    CASE v.k = "Int" -> length = SomeI64(v.n)
      [] OTHER -> length = NoneI64

\* C23: for a page of K >= 1 keys whose pipeline is answered, the follow-up
\* lookups are the 3K commands TYPE, TTL, MEMORY USAGE per key in key order,
\* sent as one pipeline in one round trip, and K details come back in key
\* order, detail i read from replies 3i, 3i + 1, 3i + 2 with "unknown", -1 and
\* absent where a reply does not decode; for K = 0 get_redis_keys sends the
\* SCAN alone and returns the empty page with the next cursor.
C23_PipelinedDetails ==
    LET K == Len(arg.keys)
        follow == IF fun = "get_redis_keys" THEN Tail(ret.trips) ELSE ret.trips IN
    /\ (/\ fun \in {"get_redis_keys", "get_keys_details"}
        /\ arg.stage = "answered"
        /\ K >= 1
        /\ Len(arg.results) = 3 * K) =>
          /\ Len(follow) = 1
          /\ Len(follow[1]) = 3 * K
          /\ \A i \in 0..(K - 1) :
               /\ follow[1][3 * i + 1] = PipeCmd("TYPE", arg.keys[i + 1])
               /\ follow[1][3 * i + 2] = PipeCmd("TTL", arg.keys[i + 1])
               /\ follow[1][3 * i + 3] = PipeCmd("MEMORY USAGE", arg.keys[i + 1])
          /\ ret.out.ok
          /\ Len(DetailsOf(ret.out)) = K
          /\ \A i \in 0..(K - 1) :
               LET d == DetailsOf(ret.out)[i + 1] IN
               /\ d.key = arg.keys[i + 1]
               /\ TypeShown(arg.results[3 * i + 1], d.type)
               /\ TtlShown(arg.results[3 * i + 2], d.ttl)
               /\ LengthShown(arg.results[3 * i + 3], d.length)
    /\ (fun = "get_redis_keys" /\ arg.stage = "answered" /\ K = 0) =>
          /\ ret.trips = <<ScanCmd>>
          /\ ret.out = Ok(ScanResult(NextCursor, <<>>))

C23_Witness ==
    /\ fun = "get_redis_keys"
    /\ arg.stage = "answered"
    /\ Len(arg.keys) = 2
    /\ arg.results = <<RedisStatus("string"), RedisInt(5), RedisInt(5),
                       RedisNil, RedisNil, RedisNil>>
    /\ ret.out.ok
    /\ ret.out.v.keys = <<KeyDetail("k1", "string", 5, SomeI64(5)),
                          KeyDetail("k2", "unknown", 0 - 1, NoneI64)>>
    /\ Len(ret.trips) = 2

\* The effective namespace of a call: the namespace given, else the number
\* the profile's database column holds, else 0.
EffectiveNamespace(db, p) ==
    IF db # NoDb THEN db
    ELSE IF \E n \in DbIdx : p.database = ToString(n)
    THEN CHOOSE n \in DbIdx : p.database = ToString(n)
    ELSE 0

\* The keyvalue registry entries that are present.
ClientKeys(reg) == {k \in ConnIds \X DbIdx : reg[k] # 0}

\* Every entry holds a client of its own key, and a resolve that returned a
\* client returned one of the key <<connection id, effective namespace>>.
KeyIsEffectiveNamespace ==
    /\ \A k \in ClientKeys(redis_clients) :
         /\ handles[redis_clients[k]].a = "redis"
         /\ handles[redis_clients[k]].conn = k[1]
         /\ handles[redis_clients[k]].ns = k[2]
    /\ \A t \in Tasks :
         LET r == tasks[t] IN
         (AdapterOf(r.op) = "redis" /\ r.pc = "resolved") =>
             /\ handles[r.res].conn = r.conn
             /\ handles[r.res].ns = EffectiveNamespace(r.db, r.prof)
             /\ r.hit # 0 => r.hit = r.res

\* A step changes at most one entry, and only as the insert of a resolve
\* under that resolve's own key.
OneEntryPerResolve ==
    \A k \in ConnIds \X DbIdx :
        redis_clients'[k] # redis_clients[k] =>
            /\ \A j \in ConnIds \X DbIdx : j # k => redis_clients'[j] = redis_clients[j]
            /\ \E t \in Tasks :
                 /\ tasks[t].pc = "insert"
                 /\ tasks'[t].pc = "resolved"
                 /\ ~tasks[t].inserted
                 /\ k = <<tasks[t].conn, EffectiveNamespace(tasks[t].db, tasks[t].prof)>>
                 /\ redis_clients'[k] = tasks'[t].res

\* C24: the keyvalue key is <<connection id, effective namespace>>: a call
\* with namespace n and a call without one whose profile default is n get the
\* entry of the same key, calls of different effective namespaces never share
\* an entry, and a resolve creates at most one entry.
C24_EffectiveNamespaceKey == [](KeyIsEffectiveNamespace) /\ [][OneEntryPerResolve]_vars

\* A call without a namespace got the entry a call with namespace 1 created.
C24_Witness ==
    \E t \in Tasks :
        LET r == tasks[t] IN
        /\ AdapterOf(r.op) = "redis"
        /\ r.pc = "resolved"
        /\ r.db = NoDb
        /\ r.prof.database = "1"
        /\ r.hit # 0
        /\ r.hit = redis_clients[<<r.conn, 1>>]

\* The type tags mysql_manager::row_to_json has an arm for.
MysqlListedTags ==
    {"BOOLEAN", "TINYINT", "SMALLINT", "INT", "INTEGER", "BIGINT", "FLOAT", "DOUBLE",
     "REAL", "VARCHAR", "CHAR", "TEXT", "TINYTEXT", "MEDIUMTEXT", "LONGTEXT", "ENUM",
     "DATETIME", "TIMESTAMP", "DATE", "TIME"}

\* The canonical value of the ladder type the stored value is of.
LadderJson(value) ==
    CASE value.k = "int" -> JsonNumber(value.n)
      [] value.k = "float" -> JsonFloat(value.f)
      [] value.k = "text" -> JsonString(value.s)
      [] OTHER -> JsonNull

\* C25: in the mysql normalizer a column whose type tag is not listed is
\* normalized by the ladder integer, float, text, Null: an integer under an
\* unlisted tag becomes Number, a float Float.
C25_UnlistedTagLadder ==
    (ReadDone /\ fun = "execute_sql") =>
        \A i \in DOMAIN arg.rows, j \in DOMAIN arg.columns :
            (/\ Kept(arg.columns, j)
             /\ arg.columns[j].type_name \notin MysqlListedTags
             /\ arg.rows[i][j].k \in {"int", "float", "text", "null"}) =>
                CellJson(i, j) = LadderJson(arg.rows[i][j])

\* What the code does for an unlisted tag: text or Null.
C25_UnlistedTagTextOrNull ==
    (ReadDone /\ fun = "execute_sql") =>
        \A i \in DOMAIN arg.rows, j \in DOMAIN arg.columns :
            (Kept(arg.columns, j) /\ arg.columns[j].type_name \notin MysqlListedTags) =>
                CellJson(i, j).t \in {"String", "Null"}

\* C26: in the sqlite normalizer the ladder decides for every reported tag: a
\* column tagged INTEGER, REAL or TEXT whose value is of another ladder type
\* becomes that type's canonical value, not Null.
C26_LadderForEveryTag ==
    (ReadDone /\ fun = "execute_sqlite_sql") =>
        \A i \in DOMAIN arg.rows, j \in DOMAIN arg.columns :
            (/\ Kept(arg.columns, j)
             /\ arg.columns[j].type_name \notin {"NULL", "BLOB"}
             /\ arg.rows[i][j].k \in {"int", "float", "text", "null"}) =>
                CellJson(i, j) = LadderJson(arg.rows[i][j])

\* The same for the tags other than INTEGER, REAL and TEXT.
C26_LadderForOtherTags ==
    (ReadDone /\ fun = "execute_sqlite_sql") =>
        \A i \in DOMAIN arg.rows, j \in DOMAIN arg.columns :
            (/\ Kept(arg.columns, j)
             /\ arg.columns[j].type_name \notin {"NULL", "BLOB", "INTEGER", "REAL", "TEXT"}
             /\ arg.rows[i][j].k \in {"int", "float", "text", "null"}) =>
                CellJson(i, j) = LadderJson(arg.rows[i][j])

\* A caller that opened a handle in its resolve has received that handle, and
\* the registry holds for every key the handle inserted last.
OwnHandleAndLastInsert ==
    /\ \A k \in RegKeys : RegOf(k) = insertLog[k]
    /\ \A t \in Tasks :
        LET r == tasks[t] IN
        (AdapterOf(r.op) \in Cached /\ r.opened /\ Returned(r)) =>
            /\ r.res = r.h
            /\ r.res # 0
            /\ r.hit = 0
            /\ r.inserted

\* A resolve that returns a cached handle returns the one the registry holds
\* at that moment, the last inserted for the key, and no closed pool.
HitIsRegistry ==
    \A t \in Tasks :
        (tasks[t].hit = 0 /\ tasks'[t].hit # 0) =>
            /\ tasks'[t].hit = RegOf(TaskKey(tasks'[t]))
            /\ tasks'[t].hit = insertLog[TaskKey(tasks'[t])]
            /\ tasks'[t].res = tasks'[t].hit
            /\ ~handles[tasks'[t].hit].closed

\* C27: after a first-use race on one key each racing caller has the handle it
\* opened itself, the registry holds the one inserted last, and every later
\* resolve on the key returns the registry's handle, never the discarded one.
C27_AfterRace == [](OwnHandleAndLastInsert) /\ [][HitIsRegistry]_vars

\* Two callers raced on a key; u holds the handle it opened, which the
\* registry has discarded; a later resolve of t got the registry's handle.
C27_Witness ==
    \E t \in Tasks, u \in Tasks :
        /\ t # u
        /\ AdapterOf(tasks[t].op) \in Cached
        /\ TaskKey(tasks[t]) = TaskKey(tasks[u])
        /\ tasks[u].opened /\ tasks[u].inserted /\ Returned(tasks[u])
        /\ ~handles[tasks[u].res].closed
        /\ tasks[u].res # RegOf(TaskKey(tasks[u]))
        /\ tasks[t].pc = "resolved"
        /\ tasks[t].hit # 0
        /\ tasks[t].hit = RegOf(TaskKey(tasks[t]))
        /\ calls = 3

\* No request is sent twice: one stats-items request, and the cachedump
\* requests are for different slabs, so there are no more of them than slabs.
NoResend ==
    /\ \A i, j \in DOMAIN enum.sent : i # j => enum.sent[i] # enum.sent[j]
    /\ Len(enum.sent) <= 1 + Cardinality(SlabIds)

\* A response is read only for the request sent last.
ReadsOnlyAfterSend ==
    /\ enum.pc = "stats" => enum.sent = <<StatsItemsRequest>>
    /\ enum.pc = "dump" =>
         /\ Len(enum.sent) > 1
         /\ enum.sent[Len(enum.sent)] = CachedumpRequest(enum.slab, PageSize)

\* C28: against a server that ends every response with the terminator or
\* closes (or breaks) the stream, list_keys_via_tcp returns in the end, a key
\* list or an error; it sends one stats-items request and at most one
\* cachedump request per slab, never one twice, and reads only the response
\* of a request it has sent.
C28_Terminates ==
    /\ <>(enum.pc = "done" /\ enum.result # <<>>)
    /\ [](NoResend /\ ReadsOnlyAfterSend)

\* The function has returned the keys of two slabs after three requests.
C28_Witness ==
    /\ enum.pc = "done"
    /\ enum.result.ok
    /\ Len(enum.sent) = 3
    /\ ~enum.closed
    /\ Len(enum.result.v) >= 2

\* ------------------------------------------------- key details of no keys
\* The current command of r is get_keys_details with an empty key list.
EmptyCall(r) == InCall(r) /\ r.op = "get_keys_details" /\ r.empty

\* The call of t has returned the empty list and has made no step of a
\* resolve: no profile read, no registry lock, lookup or insert, no client
\* opened, no session asked of the backend.
ReturnedEmptyUntouched(t) ==
    LET r == tasks[t] IN
    /\ r.pc = "done"
    /\ r.out = "empty"
    /\ r.err = ""
    /\ ~r.fetched
    /\ r.kindSeen = "none"
    /\ r.prof = NoProfile
    /\ r.hit = 0
    /\ r.attempts = 0
    /\ ~r.opened
    /\ ~r.inserted
    /\ r.h = 0
    /\ r.res = 0
    /\ lock["redis"] # t

\* The step that starts a call with no keys, and the step that ends it, leave
\* the profile store, the registries, the locks and the handles as they were.
EmptyCallFrame ==
    \A t \in Tasks :
        (EmptyCall(tasks[t]) \/ EmptyCall(tasks'[t])) /\ tasks'[t].pc # tasks[t].pc
            => UNCHANGED <<profiles, regVars, lock, handles, insertLog>>

\* C29: get_keys_details called with an empty key list returns the empty
\* list without resolving a handle: it does not read the profile, does not
\* touch the registry and does not contact the backend, whatever the profile
\* of the connection id is, and it leaves the registry unchanged.  (The
\* profile store is the one set up at start, as in every run of this system.)
C29_EmptyKeysNoResolve ==
    /\ [](\A t \in Tasks : EmptyCall(tasks[t]) => ReturnedEmptyUntouched(t))
    /\ [][EmptyCallFrame]_vars

\* C29 witness: a call with no keys has returned the empty list for a
\* connection id whose profile is absent or of another kind, where a call
\* with keys has failed in its resolve.
C29_Witness ==
    \E t, u \in Tasks :
        /\ EmptyCall(tasks[t])
        /\ ReturnedEmptyUntouched(t)
        /\ profiles[tasks[t].conn].kind # "redis"
        /\ tasks[u].op = "get_keys_details"
        /\ ~tasks[u].empty
        /\ tasks[u].conn = tasks[t].conn
        /\ tasks[u].pc = "done"
        /\ tasks[u].err \in {"ProfileNotFound", "KindMismatch"}

====
